---- MODULE Spec2Model ----
(***************************************************************************)
(* A model of the depixelizing pipeline of raster-to-vector-python:        *)
(*   PixelArtRaster       (src/modules/pixel_art_raster.py)                *)
(*   PixelAdjacencyGraph  (src/modules/pixel_adjacency_graph.py)           *)
(*   PixelVectorGraph     (src/modules/pixel_vector_graph.py)              *)
(* Arrays are indexed from 0 as in the source.  Objects of the half-edge   *)
(* mesh are named by the order of their creation (a handle that never      *)
(* changes); their id field is the mutable id of the source.               *)
(***************************************************************************)
EXTENDS Integers, Sequences, FiniteSets, TLC

VARIABLES
    pc,                 \* position in the pipeline
    raised,             \* the exception the last call ended with, or "none"
    pixel_count,        \* PixelArtRaster.pixel_count
    pixel_grid,         \* PixelArtRaster.pixel_grid: [h, w, px[r][c] = [id, colour]]
    planarize,          \* the make_graph_planar argument of the constructor
    adjacency_matrix,   \* PixelAdjacencyGraph.adjacency_matrix [r][c][k]
    cursor,             \* the place in Blocks of the block pass P3 visits next
    is_node_planar,     \* the mask held by _prune_conflicting_edges
    p3_log,             \* one record for every block P3 applied its heuristics to
    set_edge_calls,     \* number of public set_edge calls made so far
    nodes,              \* every node object created: handle -> [id, x4, y4, edge_list]
    edges,              \* every edge object created: handle -> [id, start_node, ...]
    graph_nodes_list,   \* PixelVectorGraph.graph_nodes_list (handles)
    graph_edges_list,   \* PixelVectorGraph.graph_edges_list (handles)
    number_of_nodes,    \* PixelVectorGraph.number_of_nodes
    number_of_edges,    \* PixelVectorGraph.number_of_edges
    input_raster,       \* PixelArtRaster.input_raster: [h, w, px[r][c]], or a rejected array
    import_call,        \* the arguments of the import call that made the pixel grid
    svg_elements,       \* SVGRenderer.svg_elements of the vector graph's renderer
    render_call,        \* the render call made: the stage it came after, its argument
    scale_factor,       \* SVGRenderer.scale_factor
    svg_code            \* what the renderer's last call returned: the canvas size and the
                        \* element lines of get_svg_code, nothing for any other call

vars == <<pc, raised, pixel_count, pixel_grid, planarize, adjacency_matrix, cursor,
          is_node_planar, p3_log, set_edge_calls, nodes, edges, graph_nodes_list,
          graph_edges_list, number_of_nodes, number_of_edges, input_raster,
          import_call, svg_elements, render_call, scale_factor, svg_code>>

raster_vars == <<pixel_count, pixel_grid, input_raster, import_call>>
render_vars == <<svg_elements, render_call, scale_factor, svg_code>>
adjacency_vars == <<planarize, adjacency_matrix, cursor, is_node_planar, p3_log,
                    set_edge_calls>>
graph_vars == <<nodes, edges, graph_nodes_list, graph_edges_list, number_of_nodes,
                number_of_edges>>

(***************************************************************************)
(* Bounds of the model.                                                    *)
(***************************************************************************)
MaxCells == 4           \* an input raster has at most MaxCells pixels
MaxSetEdgeCalls == 2    \* public set_edge calls explored after construction
MaxMalformedSide == 2   \* a rejected array has at most this many rows and columns

(***************************************************************************)
(* Colours (src/modules/colour.py): RGBA 4-tuples.  The rasters are drawn  *)
(* over opaque black, opaque white and transparent.                        *)
(***************************************************************************)
Black == <<0, 0, 0, 255>>
White == <<255, 255, 255, 255>>
Transparent == <<0, 0, 0, 0>>

Palette == {Black, White, Transparent}
TwoColours == {Black, White}

\* The comparison of the red, green and blue channels alone.
RgbEq(a, b) == a[1] = b[1] /\ a[2] = b[2] /\ a[3] = b[3]

\* Colour.__eq__: all four channels equal.
ColourEq(a, b) == a[1] = b[1] /\ a[2] = b[2] /\ a[3] = b[3] /\ a[4] = b[4]

(***************************************************************************)
(* PixelArtRaster.                                                         *)
(***************************************************************************)
NoGrid == [h |-> 0, w |-> 0, px |-> << >>]

\* input_raster before an import: None.
NoRaster == [h |-> 0, w |-> 0, px |-> << >>]
NoImport == [add_padding |-> FALSE]

\* The shape of an array: a raster has rank 3, its last dimension the length
\* of a pixel; an array of another rank carries its shape.
shape(array) ==
    IF "shape" \in DOMAIN array THEN array.shape
    ELSE <<array.h, array.w, Len(array.px[0][0])>>

\* The two tests of import_input_raster: ndim = 3 and shape[2] = 4.
IsRgbaRaster(array) == Len(shape(array)) = 3 /\ shape(array)[3] = 4

\* Arrays import_input_raster turns down: h x w arrays of rank 2 (grey
\* levels) and h x w x 3 arrays (RGB without alpha).
MalformedArrays ==
    UNION {UNION {{[shape |-> <<h, w>>, h |-> h, w |-> w, px |-> f] :
                      f \in [0 .. h - 1 -> [0 .. w - 1 -> {0, 255}]]}
                  \cup {[h |-> h, w |-> w, px |-> f] :
                           f \in [0 .. h - 1 ->
                                    [0 .. w - 1 -> {<<0, 0, 0>>, <<255, 255, 255>>}]]} :
                  w \in 1 .. MaxMalformedSide} : h \in 1 .. MaxMalformedSide}

\* The rasters import_input_raster is given: rank 3, last dimension 4, at
\* least one row and one column, pixels drawn from `palette`.
Rasters(palette) ==
    UNION {UNION {{[h |-> h, w |-> w, px |-> f] :
                      f \in [0 .. h - 1 -> [0 .. w - 1 -> palette]]} :
                  w \in 1 .. MaxCells \div h} : h \in 1 .. MaxCells}

\* _create_pixel_grid: one fresh pixel per cell, ids in row-major order.
create_pixel_grid(image, count) ==
    [h |-> image.h, w |-> image.w,
     px |-> [r \in 0 .. image.h - 1 |-> [c \in 0 .. image.w - 1 |->
                [id |-> count + r * image.w + c, colour |-> image.px[r][c]]]]]

\* The padding with a border of transparent pixels.
add_transparent_padding_to_pixel_grid(old, count) ==
    [h |-> old.h + 2, w |-> old.w + 2,
     px |-> [r \in 0 .. old.h + 1 |-> [c \in 0 .. old.w + 1 |->
               IF r \in 1 .. old.h /\ c \in 1 .. old.w
               THEN old.px[r - 1][c - 1]
               ELSE [id |-> count + r * (old.w + 2) + c, colour |-> Transparent]]]]

\* add_padding_to_pixel_grid: a border of fresh pixels that carry the colour of
\* the old top-left pixel; the ids follow the order of creation.
add_padding_to_pixel_grid(old, count) ==
    LET H == old.h + 2
        W == old.w + 2
        transparent_colour == old.px[0][0].colour
        PadId(r, c) ==
            IF c = 0 THEN count + 2 * r
            ELSE IF c = W - 1 THEN count + 2 * r + 1
            ELSE IF r = 0 THEN count + 2 * H + 2 * (c - 1)
            ELSE count + 2 * H + 2 * (c - 1) + 1
    IN [h |-> H, w |-> W,
        px |-> [r \in 0 .. H - 1 |-> [c \in 0 .. W - 1 |->
                  IF r \in 1 .. H - 2 /\ c \in 1 .. W - 2
                  THEN old.px[r - 1][c - 1]
                  ELSE [id |-> PadId(r, c), colour |-> transparent_colour]]]]

\* number of pixels add_padding_to_pixel_grid creates
PaddingPixels(old) == 2 * (old.h + 2) + 2 * old.w

\* get_pixel_art_image: the colours of the grid as an array.
get_pixel_art_image(grid) ==
    [r \in 0 .. grid.h - 1 |-> [c \in 0 .. grid.w - 1 |-> grid.px[r][c].colour]]

(***************************************************************************)
(* PixelAdjacencyGraph.                                                    *)
(***************************************************************************)
Rows == pixel_grid.h
Cols == pixel_grid.w

row_inc == <<-1, -1, -1, 0, 0, 1, 1, 1>>
col_inc == <<-1, 0, 1, -1, 1, -1, 0, 1>>

\* get_neighbouring_node: no bounds check.
get_neighbouring_node(row, col, edge_index) ==
    <<row + row_inc[edge_index + 1], col + col_inc[edge_index + 1]>>

\* numpy indexing of an axis of length n: -n .. n-1 are valid, negative ones
\* count from the end; anything else raises IndexError.
IndexValid(i, n) == -n <= i /\ i < n
IndexWrap(i, n) == IF i < 0 THEN i + n ELSE i

\* set_edge storing only the flag of (row, col).
set_edge_missing_opposite(matrix, row, col, edge_index, value) ==
    [m |-> [matrix EXCEPT ![row][col][edge_index] = value], err |-> "none"]

\* set_edge on `matrix`: the chained assignment stores matrix[row, col, k] first
\* and the opposite half second; the second store raises IndexError when the
\* neighbour's index is invalid, after the first store has been done.
set_edge(matrix, row, col, edge_index, value) ==
    LET opp == get_neighbouring_node(row, col, edge_index)
        first == [matrix EXCEPT ![row][col][edge_index] = value]
    IN IF IndexValid(opp[1], Rows) /\ IndexValid(opp[2], Cols)
       THEN [m |-> [first EXCEPT ![IndexWrap(opp[1], Rows)][IndexWrap(opp[2], Cols)]
                                   [7 - edge_index] = value],
             err |-> "none"]
       ELSE [m |-> first, err |-> "IndexError"]

\* get_non_planar_nodes on `matrix`: FALSE for every cell of a 2x2 block whose
\* two diagonals are both set.
BlockConflicts(matrix, row, col) == matrix[row][col][7] /\ matrix[row][col + 1][5]

get_non_planar_nodes(matrix) ==
    [r \in 0 .. Rows - 1 |-> [c \in 0 .. Cols - 1 |->
        ~ \E row \in 0 .. Rows - 2, col \in 0 .. Cols - 2 :
            /\ BlockConflicts(matrix, row, col)
            /\ r \in {row, row + 1}
            /\ c \in {col, col + 1}]]

\* _init_adjacency_graph: every flag set, then the flags of the four borders
\* cleared (the index -1 is the last row or column).
init_adjacency_graph(H, W) ==
    [r \in 0 .. H - 1 |-> [c \in 0 .. W - 1 |-> [k \in 0 .. 7 |->
        /\ ~(c = 0 /\ k \in {0, 3, 5})
        /\ ~(c = W - 1 /\ k \in {2, 4, 7})
        /\ ~(r = 0 /\ k \in {0, 1, 2})
        /\ ~(r = H - 1 /\ k \in {5, 6, 7})]]]

\* _get_edge_indices: the edge indices of (row, col) that stay inside the grid,
\* in increasing order.
get_edge_indices(row, col) ==
    LET Keep(k) ==
            /\ (k \in {0, 1, 2} => row > 0)
            /\ (k \in {5, 6, 7} => row < Rows - 1)
            /\ (k \in {0, 3, 5} => col > 0)
            /\ (k \in {2, 4, 7} => col < Cols - 1)
    IN SelectSeq(<<0, 1, 2, 3, 4, 5, 6, 7>>, Keep)

\* np.ndindex over the cells of an H x W grid: row-major order.
NdIndex(H, W) == [i \in 1 .. H * W |-> <<(i - 1) \div W, (i - 1) % W>>]

\* The blocks visited by the loops `for row in range(H-1): for col in range(W-1)`.
Blocks == IF Rows < 2 \/ Cols < 2 THEN << >> ELSE NdIndex(Rows - 1, Cols - 1)

(***************************************************************************)
(* Pass P1: _prune_edges_from_dissimilar_colours.                          *)
(***************************************************************************)
\* The <<row, col, i>> the two nested loops visit, in order: the cells in
\* row-major order, and for each cell the indices _get_edge_indices returns.
EdgeVisits ==
    SelectSeq([n \in 1 .. Rows * Cols * 8 |->
                  <<(n - 1) \div (8 * Cols), ((n - 1) \div 8) % Cols, (n - 1) % 8>>],
              LAMBDA v : \E j \in 1 .. Len(get_edge_indices(v[1], v[2])) :
                            get_edge_indices(v[1], v[2])[j] = v[3])

RECURSIVE PruneDissimilarFrom(_, _, _, _)
PruneDissimilarFrom(matrix, image, visits, n) ==
    IF n > Len(visits) THEN matrix
    ELSE LET row == visits[n][1]
             col == visits[n][2]
             i == visits[n][3]
             next == get_neighbouring_node(row, col, i)
         IN IF matrix[row][col][i]
               /\ ~ColourEq(image[row][col], image[next[1]][next[2]])
            THEN PruneDissimilarFrom(set_edge(matrix, row, col, i, FALSE).m,
                                     image, visits, n + 1)
            ELSE PruneDissimilarFrom(matrix, image, visits, n + 1)

prune_edges_from_dissimilar_colours(matrix, image) ==
    PruneDissimilarFrom(matrix, image, EdgeVisits, 1)

(***************************************************************************)
(* Pass P2: _prune_edges_from_complete_subgraphs.                          *)
(***************************************************************************)
\* The test of P2 reduced to the dexter diagonal.
BlockHasDexterDiagonal(matrix, row, col) == matrix[row][col][7]

BlockComplete(matrix, row, col) ==
    /\ matrix[row][col][4] /\ matrix[row][col][6] /\ matrix[row][col][7]
    /\ matrix[row][col + 1][3] /\ matrix[row][col + 1][6] /\ matrix[row + 1][col][4]

\* The two loops of P2 over the blocks still to visit.
RECURSIVE PruneCompleteBlocks(_, _)
PruneCompleteBlocks(matrix, blocks) ==
    IF blocks = << >> THEN matrix
    ELSE LET row == Head(blocks)[1]
             col == Head(blocks)[2]
             pruned == IF BlockComplete(matrix, row, col)
                       THEN set_edge(set_edge(matrix, row, col, 7, FALSE).m,
                                     row + 1, col, 2, FALSE).m
                       ELSE matrix
         IN PruneCompleteBlocks(pruned, Tail(blocks))

\* P2 clearing the top edge of every complete block in place of its diagonals.
prune_top_edges_of_complete_subgraphs(matrix) ==
    [r \in 0 .. Rows - 1 |-> [c \in 0 .. Cols - 1 |-> [k \in 0 .. 7 |->
        /\ matrix[r][c][k]
        /\ ~(k = 4 /\ r < Rows - 1 /\ c < Cols - 1 /\ BlockComplete(matrix, r, c))
        /\ ~(k = 3 /\ r < Rows - 1 /\ c > 0 /\ BlockComplete(matrix, r, c - 1))]]]

prune_edges_from_complete_subgraphs(matrix) == PruneCompleteBlocks(matrix, Blocks)

(***************************************************************************)
(* Pass P3, heuristic 1: _resolve_edge_conflict_by_preserving_chains.      *)
(***************************************************************************)
\* _get_node_degrees: the number of set flags of a cell (all eight).
node_degree(matrix, row, col) == Cardinality({k \in 0 .. 7 : matrix[row][col][k]})

\* The `for i in range(8)` loop of _get_chain_length on the cell `node`: every
\* unvisited neighbour along a set flag is marked and pushed.  No flag points
\* outside the grid while the constructor runs; an index numpy would wrap is
\* wrapped here.
RECURSIVE ChainExpand(_, _, _, _, _)
ChainExpand(matrix, node, i, stack, visited) ==
    IF i > 7 THEN [stack |-> stack, visited |-> visited]
    ELSE LET nb == get_neighbouring_node(node[1], node[2], i)
             next_node == <<IndexWrap(nb[1], Rows), IndexWrap(nb[2], Cols)>>
         IN IF matrix[node[1]][node[2]][i] /\ next_node \notin visited
            THEN ChainExpand(matrix, node, i + 1, Append(stack, next_node),
                             visited \cup {next_node})
            ELSE ChainExpand(matrix, node, i + 1, stack, visited)

\* The while loop of _get_chain_length: nodes_to_visit is popped from its end.
RECURSIVE ChainWalk(_, _, _, _)
ChainWalk(matrix, stack, visited, chain_length) ==
    IF stack = << >> THEN chain_length
    ELSE LET node == stack[Len(stack)]
             rest == SubSeq(stack, 1, Len(stack) - 1)
         IN IF node_degree(matrix, node[1], node[2]) <= 2
            THEN LET e == ChainExpand(matrix, node, 0, rest, visited)
                 IN ChainWalk(matrix, e.stack, e.visited, chain_length + 1)
            ELSE ChainWalk(matrix, rest, visited, chain_length)

get_chain_length(matrix, starting_nodes_list) ==
    ChainWalk(matrix, starting_nodes_list,
              {starting_nodes_list[i] : i \in 1 .. Len(starting_nodes_list)}, 0)

dexter_chain(matrix, row, col) ==
    get_chain_length(matrix, <<<<row, col>>, <<row + 1, col + 1>>>>)
sinister_chain(matrix, row, col) ==
    get_chain_length(matrix, <<<<row + 1, col>>, <<row, col + 1>>>>)

\* Heuristic 1 reporting the block resolved without removing a diagonal.
resolve_by_chains_keeping_both(matrix, row, col) ==
    [m |-> matrix,
     resolved |-> dexter_chain(matrix, row, col) # sinister_chain(matrix, row, col)]

\* Heuristic 1 removing the diagonal of the longer chain.
resolve_by_chains_preserving_shorter(matrix, row, col) ==
    IF dexter_chain(matrix, row, col) > sinister_chain(matrix, row, col)
    THEN [m |-> set_edge(matrix, row, col, 7, FALSE).m, resolved |-> TRUE]
    ELSE IF dexter_chain(matrix, row, col) < sinister_chain(matrix, row, col)
    THEN [m |-> set_edge(matrix, row + 1, col, 2, FALSE).m, resolved |-> TRUE]
    ELSE [m |-> matrix, resolved |-> FALSE]

\* Returns the matrix and whether the block was resolved.
resolve_edge_conflict_by_preserving_chains(matrix, row, col) ==
    LET dexter_diagonal_chain_length == dexter_chain(matrix, row, col)
        sinister_diagonal_chain_length == sinister_chain(matrix, row, col)
    IN IF dexter_diagonal_chain_length > sinister_diagonal_chain_length
       THEN [m |-> set_edge(matrix, row + 1, col, 2, FALSE).m, resolved |-> TRUE]
       ELSE IF dexter_diagonal_chain_length < sinister_diagonal_chain_length
       THEN [m |-> set_edge(matrix, row, col, 7, FALSE).m, resolved |-> TRUE]
       ELSE [m |-> matrix, resolved |-> FALSE]

(***************************************************************************)
(* Pass P3, heuristic 2:                                                   *)
(* _resolve_edge_conflict_by_preserving_more_prominent_edge_colour.        *)
(***************************************************************************)
threshold_ratio == 4
window_side == 6
window_reach == 2

Max2(a, b) == IF a > b THEN a ELSE b
Min2(a, b) == IF a < b THEN a ELSE b

\* The window as [top, left, bottom, right), bottom and right exclusive.
colour_window(row, col) ==
    LET top == Max2(row - window_reach, 0)
        left == Max2(col - window_reach, 0)
    IN [top |-> top, left |-> left,
        bottom |-> Min2(top + window_side, Rows),
        right |-> Min2(left + window_side, Cols)]

\* _count_pixels_with_certain_colour over the window.
count_pixels_with_certain_colour(image, win, colour) ==
    Cardinality({rc \in (win.top .. win.bottom - 1) \X (win.left .. win.right - 1) :
                    ColourEq(image[rc[1]][rc[2]], colour)})

pixel_count_dexter(image, row, col) ==
    count_pixels_with_certain_colour(image, colour_window(row, col), image[row][col])
pixel_count_sinister(image, row, col) ==
    count_pixels_with_certain_colour(image, colour_window(row, col), image[row][col + 1])

\* count_a / count_b >= threshold_ratio on positive integers.
RatioAtLeast(count_a, count_b) == count_a >= threshold_ratio * count_b

resolve_edge_conflict_by_preserving_more_prominent_edge_colour(matrix, image, row, col) ==
    LET dexter == pixel_count_dexter(image, row, col)
        sinister == pixel_count_sinister(image, row, col)
    IN IF dexter > 0 /\ RatioAtLeast(sinister, dexter)
       THEN [m |-> set_edge(matrix, row + 1, col, 2, FALSE).m, resolved |-> TRUE]
       ELSE IF sinister > 0 /\ RatioAtLeast(dexter, sinister)
       THEN [m |-> set_edge(matrix, row, col, 7, FALSE).m, resolved |-> TRUE]
       ELSE [m |-> matrix, resolved |-> FALSE]

(***************************************************************************)
(* Pass P3, heuristic 3:                                                   *)
(* _resolve_edge_conflict_by_preserving_connected_components.              *)
(***************************************************************************)
\* num_connected_components: its first statement after the counter,
\* np.zeros(matrix, dtype=bool), is given the matrix where a shape is expected
\* and raises TypeError; no component is ever counted.
num_connected_components(matrix) == [err |-> "TypeError", count |-> 0]

\* Both copies are made and edited before the first count is taken; the counts
\* are compared only if both calls return.
resolve_edge_conflict_by_preserving_connected_components(matrix, row, col) ==
    LET adjacency_matrix_without_dexter == set_edge(matrix, row, col, 7, FALSE).m
        adjacency_matrix_without_sinister == set_edge(matrix, row + 1, col, 2, FALSE).m
        without_dexter == num_connected_components(adjacency_matrix_without_dexter)
        without_sinister == num_connected_components(adjacency_matrix_without_sinister)
    IN IF without_dexter.err # "none"
       THEN [m |-> matrix, resolved |-> FALSE, err |-> without_dexter.err]
       ELSE IF without_sinister.err # "none"
       THEN [m |-> matrix, resolved |-> FALSE, err |-> without_sinister.err]
       ELSE IF without_dexter.count < without_sinister.count
       THEN [m |-> set_edge(matrix, row + 1, col, 2, FALSE).m, resolved |-> TRUE,
             err |-> "none"]
       ELSE IF without_dexter.count > without_sinister.count
       THEN [m |-> set_edge(matrix, row, col, 7, FALSE).m, resolved |-> TRUE,
             err |-> "none"]
       ELSE [m |-> matrix, resolved |-> FALSE, err |-> "none"]

(***************************************************************************)
(* The body of the P3 loop for one block that passed the mask test: the    *)
(* heuristics in order, each run only if the earlier ones did not resolve. *)
(***************************************************************************)
resolve_block(matrix, image, row, col) ==
    LET by_chains == resolve_edge_conflict_by_preserving_chains(matrix, row, col)
        by_colour == resolve_edge_conflict_by_preserving_more_prominent_edge_colour(
                         matrix, image, row, col)
        by_components == resolve_edge_conflict_by_preserving_connected_components(
                             matrix, row, col)
    IN IF by_chains.resolved
       THEN [m |-> by_chains.m, by |-> "chains", err |-> "none"]
       ELSE IF by_colour.resolved
       THEN [m |-> by_colour.m, by |-> "colour", err |-> "none"]
       ELSE [m |-> by_components.m,
             by |-> IF by_components.resolved THEN "components" ELSE "nothing",
             err |-> by_components.err]

\* The mask test passing as soon as one of the four cells is marked non-planar.
BlockTouchesNonPlanarCell(mask, row, col) ==
    ~(mask[row][col] /\ mask[row][col + 1] /\ mask[row + 1][col] /\ mask[row + 1][col + 1])

\* The mask test of _prune_conflicting_edges: all four cells marked non-planar.
BlockSelected(mask, row, col) ==
    ~(mask[row][col] \/ mask[row][col + 1] \/ mask[row + 1][col] \/ mask[row + 1][col + 1])

(***************************************************************************)
(* PixelVectorGraph: the half-edge mesh.                                   *)
(*   node: [id, x4, y4, edge_list]   position in quarter units, offset 0   *)
(*   edge: [id, start_node, end_node, pixel, next_edge, opposite_edge,     *)
(*          is_dead_end_edge]        node and edge fields hold handles     *)
(***************************************************************************)
NoEdge == 0     \* next_edge = None

BoxRows == Rows - 1
BoxCols == Cols - 1

\* _get_node_position: the offsets of the nine slots, times 4.
offset_x4 == <<2, 1, 3, 3, 1, 2, 4, 2, 0>>
offset_y4 == <<2, 1, 1, 3, 3, 0, 2, 4, 2>>

\* _initialize_graph_nodes: the <<row, col, slot>> of every node in the order
\* the nodes are created: the top-left box, the left column, the top row, the
\* rest row by row.
SlotsOf(row, col) ==
    IF row = 0 /\ col = 0 THEN <<0, 1, 2, 3, 4, 5, 6, 7, 8>>
    ELSE IF col = 0 THEN <<0, 1, 2, 3, 4, 6, 7, 8>>
    ELSE IF row = 0 THEN <<0, 1, 2, 3, 4, 5, 6, 7>>
    ELSE <<0, 1, 2, 3, 4, 6, 7>>

BoxNodes(row, col) ==
    [i \in 1 .. Len(SlotsOf(row, col)) |-> <<row, col, SlotsOf(row, col)[i]>>]

RECURSIVE ConcatBoxNodes(_)
ConcatBoxNodes(boxes) ==
    IF boxes = << >> THEN << >>
    ELSE BoxNodes(Head(boxes)[1], Head(boxes)[2]) \o ConcatBoxNodes(Tail(boxes))

NodeCreationOrder ==
    BoxNodes(0, 0)
    \o ConcatBoxNodes([i \in 1 .. BoxRows - 1 |-> <<i, 0>>])
    \o ConcatBoxNodes([i \in 1 .. BoxCols - 1 |-> <<0, i>>])
    \o ConcatBoxNodes([i \in 1 .. (BoxRows - 1) * (BoxCols - 1) |->
                          <<1 + ((i - 1) \div (BoxCols - 1)), 1 + ((i - 1) % (BoxCols - 1))>>])

\* graph_nodes_grid_box[row, col, slot] as a handle: slot 5 is slot 7 of the box
\* above and slot 8 is slot 6 of the box to the left, where those exist.
GridBoxOwner(row, col, slot) ==
    IF slot = 5 /\ row > 0 THEN <<row - 1, col, 7>>
    ELSE IF slot = 8 /\ col > 0 THEN <<row, col - 1, 6>>
    ELSE <<row, col, slot>>

GridBox(order, row, col, slot) ==
    CHOOSE h \in 1 .. Len(order) : order[h] = GridBoxOwner(row, col, slot)

new_node(h, created) ==
    [id |-> h - 1,
     x4 |-> 4 * created[2] + offset_x4[created[3] + 1],
     y4 |-> 4 * created[1] + offset_y4[created[3] + 1],
     edge_list |-> << >>]

\* _initialize_graph_edges: the three templates.  Each entry is
\* <<start slot, end slot, pixel of the block (0 TL, 1 TR, 2 BL, 3 BR),
\*   place of its twin in the template>>, in the order of creation.
DexterTemplate ==
    << <<5, 2, 0, 5>>, <<2, 4, 0, 9>>, <<4, 8, 0, 6>>, <<6, 2, 1, 10>>, <<2, 5, 1, 1>>,
       <<8, 4, 2, 3>>, <<4, 7, 2, 8>>, <<7, 4, 3, 7>>, <<4, 2, 3, 2>>, <<2, 6, 3, 4>> >>

SinisterTemplate ==
    << <<5, 1, 0, 5>>, <<1, 8, 0, 6>>, <<6, 3, 1, 10>>, <<3, 1, 1, 7>>, <<1, 5, 1, 1>>,
       <<8, 1, 2, 2>>, <<1, 3, 2, 4>>, <<3, 7, 2, 9>>, <<7, 3, 3, 8>>, <<3, 6, 3, 3>> >>

NoDiagonalTemplate ==
    << <<5, 0, 0, 4>>, <<0, 8, 0, 5>>, <<6, 0, 1, 8>>, <<0, 5, 1, 1>>,
       <<8, 0, 2, 2>>, <<0, 7, 2, 7>>, <<7, 0, 3, 6>>, <<0, 6, 3, 3>> >>

\* The branch taken for a box: the dexter diagonal is tested first.
box_template(matrix, row, col) ==
    IF matrix[row][col][7] THEN DexterTemplate
    ELSE IF matrix[row + 1][col][2] THEN SinisterTemplate
    ELSE NoDiagonalTemplate

BlockPixel(grid, row, col, corner) ==
    grid.px[row + (corner \div 2)][col + (corner % 2)]

\* The edges one box adds, given the number of edges created before it.
BoxEdges(order, grid, matrix, row, col, before) ==
    LET template == box_template(matrix, row, col)
    IN [i \in 1 .. Len(template) |->
          [id |-> before + i - 1,
           start_node |-> GridBox(order, row, col, template[i][1]),
           end_node |-> GridBox(order, row, col, template[i][2]),
           pixel |-> BlockPixel(grid, row, col, template[i][3]),
           next_edge |-> NoEdge,
           opposite_edge |-> before + template[i][4],
           is_dead_end_edge |-> FALSE]]

RECURSIVE AllBoxEdges(_, _, _, _, _)
AllBoxEdges(order, grid, matrix, boxes, created) ==
    IF boxes = << >> THEN created
    ELSE AllBoxEdges(order, grid, matrix, Tail(boxes),
                     created \o BoxEdges(order, grid, matrix, Head(boxes)[1],
                                         Head(boxes)[2], Len(created)))

\* _create_new_edge appends the edge to its start node's edge_list.
OutgoingOf(es, h) == SelectSeq([i \in 1 .. Len(es) |-> i], LAMBDA e : es[e].start_node = h)

\* The next_edge loop reading the edge_list of the start node.
link_next_from_start_node(ns, es, list) ==
    [e \in DOMAIN es |->
        IF \E i \in 1 .. Len(list) : list[i] = e
        THEN LET hits == SelectSeq(ns[es[e].start_node].edge_list,
                                  LAMBDA n : es[n].pixel.id = es[e].pixel.id)
             IN IF hits = << >> THEN es[e] ELSE [es[e] EXCEPT !.next_edge = Head(hits)]
        ELSE es[e]]

\* The loop that sets next_edge after construction: the first edge leaving the
\* end node that has the same pixel id; next_edge is left alone if there is none.
link_next_by_pixel_id(ns, es, list) ==
    [e \in DOMAIN es |->
        IF \E i \in 1 .. Len(list) : list[i] = e
        THEN LET hits == SelectSeq(ns[es[e].end_node].edge_list,
                                  LAMBDA n : es[n].pixel.id = es[e].pixel.id)
             IN IF hits = << >> THEN es[e] ELSE [es[e] EXCEPT !.next_edge = Head(hits)]
        ELSE es[e]]

\* The relinking without the test of the colour.
link_next_first_outgoing(ns, es, list) ==
    [e \in DOMAIN es |->
        IF (\E i \in 1 .. Len(list) : list[i] = e) /\ ns[es[e].end_node].edge_list # << >>
        THEN [es[e] EXCEPT !.next_edge = Head(ns[es[e].end_node].edge_list)]
        ELSE es[e]]

\* The relinking at the end of _delete_edges_without_colour_boundary: the first
\* edge leaving the end node whose pixel has the same colour.
link_next_by_colour(ns, es, list) ==
    [e \in DOMAIN es |->
        IF \E i \in 1 .. Len(list) : list[i] = e
        THEN LET hits == SelectSeq(ns[es[e].end_node].edge_list,
                                  LAMBDA n : ColourEq(es[n].pixel.colour, es[e].pixel.colour))
             IN IF hits = << >> THEN es[e] ELSE [es[e] EXCEPT !.next_edge = Head(hits)]
        ELSE es[e]]

\* construct_dual_graph on a grid with at least one box.
construct_dual_graph(grid, matrix) ==
    LET order == NodeCreationOrder
        bare == AllBoxEdges(order, grid, matrix, Blocks, << >>)
        ns == [h \in 1 .. Len(order) |->
                  [new_node(h, order[h]) EXCEPT !.edge_list = OutgoingOf(bare, h)]]
        list == [i \in 1 .. Len(bare) |-> i]
    IN [nodes |-> ns,
        edges |-> link_next_by_pixel_id(ns, bare, list),
        graph_nodes_list |-> [h \in 1 .. Len(order) |-> h],
        graph_edges_list |-> list]

(***************************************************************************)
(* simplify_dual_graph.                                                    *)
(***************************************************************************)
InList(list, h) == \E i \in 1 .. Len(list) : list[i] = h

\* The loop body without the rewiring of the edges around the node.
collapse_node_keeping_twins(ns, es, h) ==
    LET edge0 == ns[h].edge_list[1]
        edge1 == ns[h].edge_list[2]
    IN [nodes |-> [ns EXCEPT ![h].edge_list = << >>, ![h].id = -1],
        edges |-> [es EXCEPT ![edge0].id = -1, ![edge1].id = -1]]

\* The body of the first loop for one node that has exactly two outgoing
\* edges.  node0 and node1 are read before the first assignment; no assignment before
\* set_opposite_edge changes an opposite_edge, so twin0 and twin1 are the twins
\* the statements read.  The updates apply in the order written.
collapse_edges(es, edge0, edge1, node0, node1, twin0, twin1) ==
    [es EXCEPT ![edge0].start_node = node1,
               ![edge1].start_node = node0,
               ![twin0].end_node = node1,
               ![twin1].end_node = node0,
               ![twin0].opposite_edge = twin1,
               ![twin1].opposite_edge = twin0,
               ![edge0].id = -1,
               ![edge1].id = -1]

collapse_node(ns, es, h) ==
    [nodes |-> [ns EXCEPT ![h].edge_list = << >>, ![h].id = -1],
     edges |-> collapse_edges(es, ns[h].edge_list[1], ns[h].edge_list[2],
                              es[ns[h].edge_list[1]].end_node,
                              es[ns[h].edge_list[2]].end_node,
                              es[ns[h].edge_list[1]].opposite_edge,
                              es[ns[h].edge_list[2]].opposite_edge)]

\* The loop leaving after the first node of the list.
CollapseFirstOnly(ns, es, list, i) ==
    IF i <= Len(list) /\ Len(ns[list[i]].edge_list) = 2
    THEN collapse_node(ns, es, list[i])
    ELSE [nodes |-> ns, edges |-> es]

\* The first loop of simplify_dual_graph over graph_nodes_list.
RECURSIVE CollapseDegreeTwo(_, _, _, _)
CollapseDegreeTwo(ns, es, list, i) ==
    IF i > Len(list) THEN [nodes |-> ns, edges |-> es]
    ELSE IF Len(ns[list[i]].edge_list) # 2 THEN CollapseDegreeTwo(ns, es, list, i + 1)
    ELSE LET c == collapse_node(ns, es, list[i])
         IN CollapseDegreeTwo(c.nodes, c.edges, list, i + 1)

\* _delete_unallocated_nodes: the listed nodes with id >= 0, renumbered.
delete_unallocated_nodes(ns, list) ==
    LET cleaned == SelectSeq(list, LAMBDA h : ns[h].id >= 0)
    IN [nodes |-> [h \in DOMAIN ns |->
                      IF InList(cleaned, h)
                      THEN [ns[h] EXCEPT !.id =
                              (CHOOSE i \in 1 .. Len(cleaned) : cleaned[i] = h) - 1]
                      ELSE ns[h]],
        graph_nodes_list |-> cleaned]

\* The compaction of the edges that leaves the edge_list of every node alone.
delete_unallocated_edges_keeping_edge_lists(ns, es, node_list, edge_list) ==
    [nodes |-> ns,
     edges |-> [e \in DOMAIN es |->
                   IF InList(SelectSeq(edge_list, LAMBDA f : es[f].id >= 0), e)
                   THEN [es[e] EXCEPT !.id =
                           (CHOOSE i \in 1 .. Len(SelectSeq(edge_list, LAMBDA f : es[f].id >= 0)) :
                               SelectSeq(edge_list, LAMBDA f : es[f].id >= 0)[i] = e) - 1]
                   ELSE es[e]],
     graph_edges_list |-> SelectSeq(edge_list, LAMBDA f : es[f].id >= 0)]

\* _delete_unallocated_edges: the listed edges with id >= 0, renumbered; then the
\* edge_list of every listed node loses the edges whose id is negative.
delete_unallocated_edges(ns, es, node_list, edge_list) ==
    LET cleaned == SelectSeq(edge_list, LAMBDA e : es[e].id >= 0)
        renumbered == [e \in DOMAIN es |->
                          IF InList(cleaned, e)
                          THEN [es[e] EXCEPT !.id =
                                  (CHOOSE i \in 1 .. Len(cleaned) : cleaned[i] = e) - 1]
                          ELSE es[e]]
    IN [nodes |-> [h \in DOMAIN ns |->
                      IF InList(node_list, h)
                      THEN [ns[h] EXCEPT !.edge_list =
                              SelectSeq(ns[h].edge_list, LAMBDA e : renumbered[e].id >= 0)]
                      ELSE ns[h]],
        edges |-> renumbered,
        graph_edges_list |-> cleaned]

\* The test of _delete_edges_without_colour_boundary.
SameColourAsTwin(es, e) ==
    ColourEq(es[e].pixel.colour, es[es[e].opposite_edge].pixel.colour)

\* The first loop invalidating one edge of each pair only.
invalidate_edges_without_colour_boundary_one_side(es, list) ==
    [e \in DOMAIN es |->
        IF InList(list, e) /\ SameColourAsTwin(es, e) /\ e < es[e].opposite_edge
        THEN [es[e] EXCEPT !.id = -1]
        ELSE es[e]]

\* The first loop of _delete_edges_without_colour_boundary: an edge whose pixel
\* has the colour of its twin's pixel is invalidated together with its twin.
invalidate_edges_without_colour_boundary(es, list) ==
    LET hit == {e \in DOMAIN es : InList(list, e) /\ SameColourAsTwin(es, e)}
        gone == hit \cup {es[e].opposite_edge : e \in hit}
    IN [e \in DOMAIN es |-> IF e \in gone THEN [es[e] EXCEPT !.id = -1] ELSE es[e]]

\* The deletion without the second loop, which sets next_edge again.
delete_edges_without_relinking(ns, es, node_list, edge_list) ==
    LET marked == invalidate_edges_without_colour_boundary(es, edge_list)
        d == delete_unallocated_edges(ns, marked, node_list, edge_list)
    IN [nodes |-> d.nodes, edges |-> d.edges, graph_edges_list |-> d.graph_edges_list]

\* _delete_edges_without_colour_boundary.
delete_edges_without_colour_boundary(ns, es, node_list, edge_list) ==
    LET marked == invalidate_edges_without_colour_boundary(es, edge_list)
        d == delete_unallocated_edges(ns, marked, node_list, edge_list)
    IN [nodes |-> d.nodes,
        edges |-> link_next_by_colour(d.nodes, d.edges, d.graph_edges_list),
        graph_edges_list |-> d.graph_edges_list]

\* simplify_dual_graph: the loop, the two compactions, the deletion of the
\* edges without colour boundary.
SimplifyEdges(dn, es, edge_list) ==
    delete_unallocated_edges(dn.nodes, es, dn.graph_nodes_list, edge_list)

SimplifyBoundaries(de, node_list) ==
    [graph_nodes_list |-> node_list,
     mesh |-> delete_edges_without_colour_boundary(de.nodes, de.edges, node_list,
                                                   de.graph_edges_list)]

SimplifyCollapsed(c, node_list, edge_list) ==
    SimplifyBoundaries(
        SimplifyEdges(delete_unallocated_nodes(c.nodes, node_list), c.edges, edge_list),
        SelectSeq(node_list, LAMBDA h : c.nodes[h].id >= 0))

simplify_dual_graph(ns, es, node_list, edge_list) ==
    SimplifyCollapsed(CollapseDegreeTwo(ns, es, node_list, 1), node_list, edge_list)

(***************************************************************************)
(* resolve_t_junctions_in_simplified_vector_graph.                         *)
(***************************************************************************)
\* next_node.get_coordinates() - node.get_coordinates() with y negated, in
\* quarter units.
node_position(ns, h, next_node) ==
    <<ns[next_node].x4 - ns[h].x4, -(ns[next_node].y4 - ns[h].y4)>>

\* The angle the code gives a position is its polar angle in [0, 2 pi); the
\* position (0, 0) gets pi / 2, the angle of (0, 1).
angle_direction(position) == IF position = <<0, 0>> THEN <<0, 1>> ELSE position

Dot(u, w) == u[1] * w[1] + u[2] * w[2]
SignedSquare(a) == IF a < 0 THEN -(a * a) ELSE a * a

\* min(|a - b|, 2 pi - |a - b|) is the angle between the two directions, in
\* [0, pi]; it is the larger where the cosine is the smaller.  The gap between
\* u1 and w1 is at least the gap between u2 and w2:
GapAtLeast(u1, w1, u2, w2) ==
    SignedSquare(Dot(u1, w1)) * Dot(u2, u2) * Dot(w2, w2)
        <= SignedSquare(Dot(u2, w2)) * Dot(u1, u1) * Dot(w1, w1)

\* The directions of the three outward edges of node h.
node_directions(ns, es, h) ==
    [i \in 1 .. 3 |-> angle_direction(node_position(ns, h, es[ns[h].edge_list[i]].end_node))]

\* The gap between directions a and b of d is the maximum of the three gaps.
WidestGap(d, a, b, c) ==
    GapAtLeast(d[a], d[b], d[b], d[c]) /\ GapAtLeast(d[a], d[b], d[c], d[a])

inward_edges(ns, es, h) == [i \in 1 .. 3 |-> es[ns[h].edge_list[i]].opposite_edge]

\* The tests flagging the first edge of the widest pair.
dead_ends_in_widest_pair(ns, es, h) ==
    (IF WidestGap(node_directions(ns, es, h), 1, 2, 3)
     THEN {inward_edges(ns, es, h)[1]} ELSE {})
    \cup (IF WidestGap(node_directions(ns, es, h), 2, 3, 1)
          THEN {inward_edges(ns, es, h)[2]} ELSE {})
    \cup (IF WidestGap(node_directions(ns, es, h), 3, 1, 2)
          THEN {inward_edges(ns, es, h)[3]} ELSE {})

\* The inward edges the three tests flag at a node h of three outward edges:
\* angle_01 the maximum flags inward_edges[2], angle_12 inward_edges[0],
\* angle_20 inward_edges[1] (indices of the source, from 0).
dead_ends_at(ns, es, h) ==
    (IF WidestGap(node_directions(ns, es, h), 1, 2, 3)
     THEN {inward_edges(ns, es, h)[3]} ELSE {})
    \cup (IF WidestGap(node_directions(ns, es, h), 2, 3, 1)
          THEN {inward_edges(ns, es, h)[1]} ELSE {})
    \cup (IF WidestGap(node_directions(ns, es, h), 3, 1, 2)
          THEN {inward_edges(ns, es, h)[2]} ELSE {})

\* The loop over graph_nodes_list: the flags are only ever set.
resolve_t_junctions(ns, es, list) ==
    [e \in DOMAIN es |->
        IF \E i \in 1 .. Len(list) :
              Len(ns[list[i]].edge_list) = 3 /\ e \in dead_ends_at(ns, es, list[i])
        THEN [es[e] EXCEPT !.is_dead_end_edge = TRUE]
        ELSE es[e]]

(***************************************************************************)
(* PixelVectorGraph.render: the region-tracing loops.  Points of polygons  *)
(* are in quarter units, points of curves in eighth units (edge centres    *)
(* are midpoints of nodes).                                                *)
(***************************************************************************)
NoRender == [after |-> "none", show_smoothened_image |-> FALSE]

\* visited[edge.id] of an array of n flags: a negative index counts from the
\* end; the value n stands for an index out of bounds (IndexError).
VisitedIndex(id, n) ==
    IF id >= 0 /\ id < n THEN id
    ELSE IF id < 0 /\ id + n >= 0 THEN id + n
    ELSE n

\* get_coordinates and get_centre in eighth units.
get_coordinates(ns, h) == <<2 * ns[h].x4, 2 * ns[h].y4>>
get_centre(ns, es, e) ==
    <<ns[es[e].start_node].x4 + ns[es[e].end_node].x4,
      ns[es[e].start_node].y4 + ns[es[e].end_node].y4>>

\* _get_line_intersection_point: None where the denominator is zero, else
\* the point as the two numerators over the denominator.
intersection_denominator(p1, p2, q1, q2) ==
    (p1[1] - p2[1]) * (q1[2] - q2[2]) - (p1[2] - p2[2]) * (q1[1] - q2[1])

get_line_intersection_point(p1, p2, q1, q2) ==
    IF intersection_denominator(p1, p2, q1, q2) = 0
    THEN [none |-> TRUE, px |-> 0, py |-> 0, denom |-> 0]
    ELSE [none |-> FALSE,
          px |-> (p1[1] * p2[2] - p1[2] * p2[1]) * (q1[1] - q2[1])
                 - (p1[1] - p2[1]) * (q1[1] * q2[2] - q1[2] * q2[1]),
          py |-> (p1[1] * p2[2] - p1[2] * p2[1]) * (q1[2] - q2[2])
                 - (p1[2] - p2[2]) * (q1[1] * q2[2] - q1[2] * q2[1]),
          denom |-> intersection_denominator(p1, p2, q1, q2)]

\* The two edges _add_t_junction_filler_svg_elements reads after the dead end.
t_junction_edge_1(es, d) == es[d].next_edge
t_junction_edge_2(es, d) == es[es[es[d].next_edge].opposite_edge].next_edge

\* The intersection point the filler computes for dead-end edge d.
filler_intersection(ns, es, d) ==
    get_line_intersection_point(get_centre(ns, es, d),
                                get_coordinates(ns, es[d].end_node),
                                get_centre(ns, es, t_junction_edge_1(es, d)),
                                get_centre(ns, es, t_junction_edge_2(es, d)))

\* The comparison of the filler: float() of the difference of two points.
\* A missing intersection is None, and None - Vector2D is a TypeError; a
\* Vector2D has no conversion to float, a TypeError as well.
float_of_difference(intersection) == "TypeError"

\* _add_t_junction_filler_svg_elements(d): how the call ends and the polygons
\* it added.  The two add_polygon calls follow the comparison.
add_t_junction_filler_svg_elements(ns, es, d) ==
    IF es[d].next_edge = NoEdge \/ t_junction_edge_2(es, d) = NoEdge
    THEN [raised |-> "AttributeError", polygons |-> << >>]
    ELSE [raised |-> float_of_difference(filler_intersection(ns, es, d)),
          polygons |-> << >>]

\* The `while edge is not None` loop from start_edge: the edges it visits and
\* how it ends: "open" at an unset next_edge, "closed" at an edge with the id
\* of start_edge, "never" when it comes back to a visited edge other than
\* start_edge and so repeats for ever.
RECURSIVE trace_region(_, _, _)
trace_region(es, start_edge, seen) ==
    LET edge == es[seen[Len(seen)]].next_edge
    IN IF edge = NoEdge THEN [ends |-> "open", seen |-> seen]
       ELSE IF es[edge].id = es[start_edge].id THEN [ends |-> "closed", seen |-> seen]
       ELSE IF InList(seen, edge) THEN [ends |-> "never", seen |-> seen]
       ELSE trace_region(es, start_edge, Append(seen, edge))

\* The dead-end inward edges at the end node of e, in edge_list order.
dead_end_inward_edges(ns, es, e) ==
    SelectSeq([i \in 1 .. Len(ns[es[e].end_node].edge_list) |->
                  es[ns[es[e].end_node].edge_list[i]].opposite_edge],
              LAMBDA d : es[d].is_dead_end_edge)

\* What one pass of the loop body raises for edge e, or "none".
polygon_step(es, n, e) ==
    IF VisitedIndex(es[e].id, n) = n THEN "IndexError" ELSE "none"

b_spline_step(ns, es, n, e) ==
    IF VisitedIndex(es[e].id, n) = n THEN "IndexError"
    ELSE IF Len(ns[es[e].end_node].edge_list) >= 4
    THEN (IF es[e].next_edge = NoEdge THEN "AttributeError" ELSE "none")
    ELSE IF Len(ns[es[e].end_node].edge_list) = 3
            /\ dead_end_inward_edges(ns, es, e) # << >>
    THEN add_t_junction_filler_svg_elements(ns, es,
                                            Head(dead_end_inward_edges(ns, es, e))).raised
    ELSE IF es[e].next_edge = NoEdge THEN "AttributeError" ELSE "none"

region_step(ns, es, n, smooth, e) ==
    IF smooth THEN b_spline_step(ns, es, n, e) ELSE polygon_step(es, n, e)

\* The first exception along the edges visited, or "none".
first_raised(ns, es, n, smooth, seen) ==
    IF \A k \in 1 .. Len(seen) : region_step(ns, es, n, smooth, seen[k]) = "none"
    THEN "none"
    ELSE region_step(ns, es, n, smooth,
                     seen[CHOOSE k \in 1 .. Len(seen) :
                            /\ region_step(ns, es, n, smooth, seen[k]) # "none"
                            /\ \A j \in 1 .. k - 1 :
                                  region_step(ns, es, n, smooth, seen[j]) = "none"])

\* The curves appended for edge e: two straight pieces at a node of degree
\* four or more, else get_b_spline_points.
bezier_curves_of(ns, es, e) ==
    IF Len(ns[es[e].end_node].edge_list) >= 4
    THEN <<<<get_centre(ns, es, e), get_centre(ns, es, e),
             get_coordinates(ns, es[e].end_node)>>,
           <<get_coordinates(ns, es[e].end_node), get_coordinates(ns, es[e].end_node),
             get_centre(ns, es, es[e].next_edge)>>>>
    ELSE <<<<get_centre(ns, es, e), get_coordinates(ns, es[e].end_node),
             get_centre(ns, es, es[e].next_edge)>>>>

RECURSIVE bezier_curves(_, _, _, _)
bezier_curves(ns, es, seen, k) ==
    IF k > Len(seen) THEN << >>
    ELSE bezier_curves_of(ns, es, seen[k]) \o bezier_curves(ns, es, seen, k + 1)

\* The element added when the loop closes.
region_element(ns, es, smooth, seen) ==
    IF smooth
    THEN [kind |-> "piecewise_b_spline_area",
          points |-> bezier_curves(ns, es, seen, 1),
          colour |-> es[seen[1]].pixel.colour]
    ELSE [kind |-> "polygon",
          points |-> [k \in 1 .. Len(seen) |->
                        <<ns[es[seen[k]].start_node].x4, ns[es[seen[k]].start_node].y4>>],
          colour |-> es[seen[1]].pixel.colour]

\* The state of the outer loop after the region traced as t.
after_region(ns, es, n, smooth, acc, t) ==
    IF first_raised(ns, es, n, smooth, t.seen) # "none"
    THEN [acc EXCEPT !.outcome = first_raised(ns, es, n, smooth, t.seen)]
    ELSE IF t.ends = "never"
    THEN [acc EXCEPT !.outcome = "never returns"]
    ELSE [outcome |-> "ok",
          visited |-> acc.visited \cup {VisitedIndex(es[t.seen[k]].id, n) :
                                           k \in 1 .. Len(t.seen)},
          svg_elements |-> IF t.ends = "closed"
                           THEN Append(acc.svg_elements,
                                       region_element(ns, es, smooth, t.seen))
                           ELSE acc.svg_elements]

\* _set_dual_graph_svg_elements (smooth FALSE) and
\* _set_piecewise_b_spline_area_elements (smooth TRUE): the loop over
\* graph_edges_list from its i-th edge, n = number_of_edges.
RECURSIVE set_region_elements(_, _, _, _, _, _, _)
set_region_elements(ns, es, list, n, smooth, i, acc) ==
    IF i > Len(list) \/ acc.outcome # "ok" THEN acc
    ELSE IF VisitedIndex(es[list[i]].id, n) \in acc.visited
    THEN set_region_elements(ns, es, list, n, smooth, i + 1, acc)
    ELSE set_region_elements(ns, es, list, n, smooth, i + 1,
             after_region(ns, es, n, smooth, acc, trace_region(es, list[i], <<list[i]>>)))

\* render(show_smoothened_image) with the highlight options off.
render(ns, es, list, n, show_smoothened_image) ==
    set_region_elements(ns, es, list, n, show_smoothened_image, 1,
                        [outcome |-> "ok", visited |-> {}, svg_elements |-> << >>])

(***************************************************************************)
(* SVGRenderer (src/modules/svg_renderer.py): squares, lines and circles.  *)
(* An element is a record of its fields; bound_points, scale_factor and    *)
(* bounds are the fields of _SVGElement.  Coordinates are whole numbers,   *)
(* so every number is written as Python writes an int.                     *)
(***************************************************************************)
DEFAULT_SCALE_FACTOR == 20
DEFAULT_LINE_WIDTH == 2

NoCode == [canvas |-> <<0, 0>>, svg_open_code |-> "", elements |-> << >>]

\* The fold of _SVGElement.set_scale_factor over bound_points from the k-th
\* point on, starting from Vector2D(0, 0).
RECURSIVE scaled_bounds(_, _, _, _)
scaled_bounds(bound_points, factor, k, bounds) ==
    IF k > Len(bound_points) THEN bounds
    ELSE scaled_bounds(bound_points, factor, k + 1,
                       <<Max2(bounds[1], bound_points[k][1] * factor),
                         Max2(bounds[2], bound_points[k][2] * factor)>>)

\* set_scale_factor with the bounds left as they were.
set_scale_factor_keeping_bounds(element, factor) ==
    [element EXCEPT !.scale_factor = factor]

\* _SVGElement.set_scale_factor.
set_scale_factor(element, factor) ==
    [element EXCEPT !.scale_factor = factor,
                    !.bounds = scaled_bounds(element.bound_points, factor, 1, <<0, 0>>)]

\* The constructors; add_square and add_circle leave the element's own
\* scale factor at its default, add_line passes its default on.
square_element(side_length, colour, position) ==
    set_scale_factor([kind |-> "square", side_length |-> side_length, colour |-> colour,
                      position |-> position,
                      bound_points |-> <<<<position[1] + side_length,
                                           position[2] + side_length>>>>,
                      scale_factor |-> DEFAULT_SCALE_FACTOR, bounds |-> <<0, 0>>],
                     DEFAULT_SCALE_FACTOR)

line_element(point1, point2, colour) ==
    set_scale_factor([kind |-> "line", point1 |-> point1, point2 |-> point2,
                      colour |-> colour, width |-> DEFAULT_LINE_WIDTH,
                      bound_points |-> <<point1, point2>>,
                      scale_factor |-> DEFAULT_SCALE_FACTOR, bounds |-> <<0, 0>>],
                     DEFAULT_SCALE_FACTOR)

circle_element(centre, radius, colour) ==
    set_scale_factor([kind |-> "circle", centre |-> centre, radius |-> radius,
                      colour |-> colour,
                      bound_points |-> <<<<centre[1] + radius, centre[2] + radius>>>>,
                      scale_factor |-> DEFAULT_SCALE_FACTOR, bounds |-> <<0, 0>>],
                     DEFAULT_SCALE_FACTOR)

\* Colour.__str__ and Vector2D.__str__.
colour_str(colour) ==
    "(" \o ToString(colour[1]) \o ", " \o ToString(colour[2]) \o ", "
        \o ToString(colour[3]) \o ", " \o ToString(colour[4]) \o ")"
vector_str(v) == "(" \o ToString(v[1]) \o ", " \o ToString(v[2]) \o ")"

\* _SquareElement.__str__, _LineElement.__str__, _CircleElement.__str__.
square_str(e) ==
    "<rect " \o "width=\"" \o ToString(e.side_length * e.scale_factor) \o "\" "
        \o "height=\"" \o ToString(e.side_length * e.scale_factor) \o "\" "
        \o "fill=\"rgba" \o colour_str(e.colour) \o "\" "
        \o "transform=\"translate"
        \o vector_str(<<e.position[1] * e.scale_factor, e.position[2] * e.scale_factor>>)
        \o "\"/>"

line_str(e) ==
    "<line x1=\"" \o ToString(e.point1[1] * e.scale_factor)
        \o "\" y1=\"" \o ToString(e.point1[2] * e.scale_factor)
        \o "\" x2=\"" \o ToString(e.point2[1] * e.scale_factor)
        \o "\" y2=\"" \o ToString(e.point2[2] * e.scale_factor)
        \o "\" stroke=\"rgba" \o colour_str(e.colour)
        \o "\" stroke-width=\"" \o ToString(e.width) \o "\" />"

circle_str(e) ==
    "<circle cx=\"" \o ToString(e.centre[1] * e.scale_factor)
        \o "\" cy=\"" \o ToString(e.centre[2] * e.scale_factor)
        \o "\" r=\"" \o ToString(e.radius * e.scale_factor)
        \o "\" fill=\"rgba" \o colour_str(e.colour) \o "\"/>"

element_str(e) ==
    IF e.kind = "square" THEN square_str(e)
    ELSE IF e.kind = "line" THEN line_str(e)
    ELSE circle_str(e)

\* SVGRenderer._get_canvas_size: the fold over svg_elements from the k-th on.
RECURSIVE get_canvas_size(_, _, _)
get_canvas_size(elements, k, canvas) ==
    IF k > Len(elements) THEN canvas
    ELSE get_canvas_size(elements, k + 1,
                         <<Max2(canvas[1], elements[k].bounds[1]),
                           Max2(canvas[2], elements[k].bounds[2])>>)

\* SVGRenderer.get_svg_code: the elements take the renderer's scale factor,
\* then the canvas is sized and every element is written on a line of its own.
rescaled(elements, factor) ==
    [k \in 1 .. Len(elements) |-> set_scale_factor(elements[k], factor)]

svg_open_code(canvas) ==
    "<svg width=\"" \o ToString(canvas[1]) \o "\" height=\"" \o ToString(canvas[2])
        \o "\" shape-rendering=\"crispEdges\" style=\"background-color: transparent;\""
        \o " xmlns=\"http://www.w3.org/2000/svg\">"

get_svg_code(elements) ==
    [canvas |-> get_canvas_size(elements, 1, <<0, 0>>),
     svg_open_code |-> svg_open_code(get_canvas_size(elements, 1, <<0, 0>>)),
     elements |-> [k \in 1 .. Len(elements) |-> element_str(elements[k])]]

(***************************************************************************)
(* The state after the objects are created and before a raster is given.   *)
(***************************************************************************)
Init ==
    /\ pc = "new"
    /\ raised = "none"
    /\ pixel_count = 0
    /\ pixel_grid = NoGrid
    /\ planarize = FALSE
    /\ adjacency_matrix = << >>
    /\ cursor = 0
    /\ is_node_planar = << >>
    /\ p3_log = << >>
    /\ set_edge_calls = 0
    /\ nodes = << >>
    /\ edges = << >>
    /\ graph_nodes_list = << >>
    /\ graph_edges_list = << >>
    /\ number_of_nodes = 0
    /\ number_of_edges = 0
    /\ input_raster = NoRaster
    /\ import_call = NoImport
    /\ svg_elements = << >>
    /\ render_call = NoRender
    /\ scale_factor = DEFAULT_SCALE_FACTOR
    /\ svg_code = NoCode

(***************************************************************************)
(* PixelArtRaster.import_input_raster(input_raster, add_padding) with a    *)
(* raster of rank 3 and four channels, reduce_input_raster off.            *)
(***************************************************************************)
Import(raster, add_padding) ==
    /\ pc = "new"
    /\ IsRgbaRaster(raster)
    /\ LET created == create_pixel_grid(raster, pixel_count)
           count == pixel_count + raster.h * raster.w
       IN IF add_padding
          THEN /\ pixel_grid' = add_padding_to_pixel_grid(created, count)
               /\ pixel_count' = count + PaddingPixels(created)
          ELSE /\ pixel_grid' = created
               /\ pixel_count' = count
    /\ input_raster' = raster
    /\ import_call' = [add_padding |-> add_padding]
    /\ pc' = "imported"
    /\ UNCHANGED <<raised, adjacency_vars, graph_vars, render_vars>>

ImportInputRaster ==
    \E raster \in Rasters(Palette), add_padding \in BOOLEAN :
        Import(raster, add_padding)

\* import_input_raster with an array that fails one of the two tests: the
\* array is stored, a warning is logged and the call returns.
ImportRejected ==
    /\ pc = "new"
    /\ \E array \in MalformedArrays :
          /\ ~IsRgbaRaster(array)
          /\ input_raster' = array
    /\ UNCHANGED <<pc, raised, pixel_count, pixel_grid, import_call, adjacency_vars,
                   graph_vars, render_vars>>

(***************************************************************************)
(* PixelAdjacencyGraph.__init__(pixel_art_raster, make_graph_planar), in   *)
(* the steps it takes: _init_adjacency_graph, then  P1, P2 and the blocks  *)
(* of P3 one by one.                                                       *)
(***************************************************************************)
InitAdjacencyGraph ==
    \E make_graph_planar \in BOOLEAN :
        /\ pc = "imported"
        /\ adjacency_matrix' = init_adjacency_graph(Rows, Cols)
        /\ planarize' = make_graph_planar
        /\ pc' = IF make_graph_planar THEN "P1" ELSE "adj_done"
        /\ UNCHANGED <<raised, raster_vars, render_vars, cursor, is_node_planar, p3_log,
                       set_edge_calls, graph_vars>>

PruneDissimilarColours ==
    /\ pc = "P1"
    /\ adjacency_matrix' = prune_edges_from_dissimilar_colours(
                               adjacency_matrix, get_pixel_art_image(pixel_grid))
    /\ pc' = "P2"
    /\ UNCHANGED <<raised, raster_vars, render_vars, planarize, cursor, is_node_planar, p3_log,
                   set_edge_calls, graph_vars>>

PruneCompleteSubgraphs ==
    /\ pc = "P2"
    /\ adjacency_matrix' = prune_edges_from_complete_subgraphs(adjacency_matrix)
    /\ pc' = "P3_begin"
    /\ UNCHANGED <<raised, raster_vars, render_vars, planarize, cursor, is_node_planar, p3_log,
                   set_edge_calls, graph_vars>>

\* _prune_conflicting_edges up to its loop: the mask is computed once.
PruneConflictingBegin ==
    /\ pc = "P3_begin"
    /\ is_node_planar' = get_non_planar_nodes(adjacency_matrix)
    /\ cursor' = 1
    /\ pc' = "P3"
    /\ UNCHANGED <<raised, raster_vars, render_vars, planarize, adjacency_matrix, p3_log,
                   set_edge_calls, graph_vars>>

\* The blocks from the cursor on that pass the mask test with the mask as held.
SelectedFrom(mask, from) ==
    {n \in from .. Len(Blocks) : BlockSelected(mask, Blocks[n][1], Blocks[n][2])}

\* The last of the blocks S in the order of the loops.
MaxOf(S) == CHOOSE n \in S : \A m \in S : m <= n

\* The first of the blocks S in the order of the loops.
MinOf(S) == CHOOSE n \in S : \A m \in S : n <= m

\* The loop of _prune_conflicting_edges runs on to the next block that passes
\* the mask test (the blocks before it are skipped without any effect) and
\* executes its body there: the heuristics, then the mask again.
PruneConflictingBlock ==
    /\ pc = "P3"
    /\ SelectedFrom(is_node_planar, cursor) # {}
    /\ LET n == MinOf(SelectedFrom(is_node_planar, cursor))
           row == Blocks[n][1]
           col == Blocks[n][2]
           image == get_pixel_art_image(pixel_grid)
           r == resolve_block(adjacency_matrix, image, row, col)
       IN /\ p3_log' = Append(p3_log,
                [row |-> row, col |-> col,
                 conflict |-> BlockConflicts(adjacency_matrix, row, col),
                 dexter_chain |-> dexter_chain(adjacency_matrix, row, col),
                 sinister_chain |-> sinister_chain(adjacency_matrix, row, col),
                 dexter_count |-> pixel_count_dexter(image, row, col),
                 sinister_count |-> pixel_count_sinister(image, row, col),
                 by |-> r.by, before |-> adjacency_matrix])
          /\ adjacency_matrix' = r.m
          /\ cursor' = n + 1
          /\ IF r.err = "none"
             THEN /\ is_node_planar' = get_non_planar_nodes(r.m)
                  /\ UNCHANGED <<pc, raised>>
             ELSE /\ raised' = r.err
                  /\ pc' = "adj_raised"
                  /\ UNCHANGED is_node_planar
    /\ UNCHANGED <<raster_vars, render_vars, planarize, set_edge_calls, graph_vars>>

\* No block from the cursor on passes the mask test: the loop runs out and the
\* constructor returns.
PruneConflictingEnd ==
    /\ pc = "P3"
    /\ SelectedFrom(is_node_planar, cursor) = {}
    /\ cursor' = Len(Blocks) + 1
    /\ pc' = "adj_done"
    /\ UNCHANGED <<raised, raster_vars, render_vars, planarize, adjacency_matrix, is_node_planar,
                   p3_log, set_edge_calls, graph_vars>>

(***************************************************************************)
(* A public call set_edge(row, col, edge_index, value) on the constructed  *)
(* graph, for a cell of the grid and an index 0..7.  An IndexError leaves  *)
(* the first store in place and the object usable.                         *)
(***************************************************************************)
SetEdge ==
    /\ pc = "adj_done"
    /\ set_edge_calls < MaxSetEdgeCalls
    /\ \E row \in 0 .. Rows - 1, col \in 0 .. Cols - 1, edge_index \in 0 .. 7,
          value \in BOOLEAN :
          LET r == set_edge(adjacency_matrix, row, col, edge_index, value)
          IN /\ adjacency_matrix' = r.m
             /\ raised' = r.err
    /\ set_edge_calls' = set_edge_calls + 1
    /\ UNCHANGED <<pc, raster_vars, render_vars, planarize, cursor, is_node_planar, p3_log,
                   graph_vars>>

\* The adjacency graph built over an unpadded two-colour grid and then used
\* through its public interface.
ImportUnpadded ==
    \E raster \in Rasters(TwoColours) : Import(raster, FALSE)

NextAdj ==
    \/ ImportUnpadded
    \/ InitAdjacencyGraph
    \/ PruneDissimilarColours
    \/ PruneCompleteSubgraphs
    \/ PruneConflictingBegin
    \/ PruneConflictingBlock
    \/ PruneConflictingEnd
    \/ SetEdge

SpecAdj == Init /\ [][NextAdj]_vars

(***************************************************************************)
(* The constructor of PixelAdjacencyGraph on larger unpadded grids: wide   *)
(* rasters of two rows in any colours, and tall rasters that hold one      *)
(* black and white checkerboard block at (1, 1) on a transparent ground    *)
(* with any of the cells of the two bottom rows black.                     *)
(***************************************************************************)
WideCols == 3       \* columns of a wide raster
TallRows == 6       \* rows of a tall raster
TallCols == 4       \* columns of a tall raster

WideRasters ==
    {[h |-> 2, w |-> WideCols, px |-> f] : f \in [0 .. 1 -> [0 .. WideCols - 1 -> Palette]]}

TallColour(r, c, black) ==
    IF <<r, c>> \in {<<1, 1>>, <<2, 2>>} THEN Black
    ELSE IF <<r, c>> \in {<<1, 2>>, <<2, 1>>} THEN White
    ELSE IF <<r, c>> \in black THEN Black
    ELSE Transparent

TallRasters ==
    {[h |-> TallRows, w |-> TallCols,
      px |-> [r \in 0 .. TallRows - 1 |-> [c \in 0 .. TallCols - 1 |->
                 TallColour(r, c, black)]]] :
        black \in SUBSET ((TallRows - 2 .. TallRows - 1) \X (0 .. TallCols - 1))}

ImportWideOrTall ==
    \E raster \in WideRasters \cup TallRasters : Import(raster, FALSE)

NextPlanar ==
    \/ ImportWideOrTall
    \/ InitAdjacencyGraph
    \/ PruneDissimilarColours
    \/ PruneCompleteSubgraphs
    \/ PruneConflictingBegin
    \/ PruneConflictingBlock
    \/ PruneConflictingEnd

SpecPlanar == Init /\ [][NextPlanar]_vars

(***************************************************************************)
(* PixelVectorGraph.construct_dual_graph().  On a grid with fewer than two *)
(* rows or columns graph_nodes_grid_box has no box: the first node is      *)
(* created and the store into the box raises IndexError.                   *)
(***************************************************************************)
ConstructDualGraph ==
    /\ pc = "adj_done"
    /\ set_edge_calls = 0
    /\ IF Len(Blocks) = 0
       THEN /\ nodes' = <<new_node(1, <<0, 0, 0>>)>>
            /\ graph_nodes_list' = <<1>>
            /\ number_of_nodes' = 1
            /\ raised' = "IndexError"
            /\ pc' = "dual_raised"
            /\ UNCHANGED <<edges, graph_edges_list, number_of_edges>>
       ELSE LET g == construct_dual_graph(pixel_grid, adjacency_matrix)
            IN /\ nodes' = g.nodes
               /\ edges' = g.edges
               /\ graph_nodes_list' = g.graph_nodes_list
               /\ graph_edges_list' = g.graph_edges_list
               /\ number_of_nodes' = Len(g.nodes)
               /\ number_of_edges' = Len(g.edges)
               /\ pc' = "dual"
               /\ UNCHANGED raised
    /\ UNCHANGED <<raster_vars, render_vars, adjacency_vars>>

(***************************************************************************)
(* PixelVectorGraph.simplify_dual_graph().                                 *)
(***************************************************************************)
SimplifyDualGraph ==
    /\ pc = "dual"
    /\ LET g == simplify_dual_graph(nodes, edges, graph_nodes_list, graph_edges_list)
       IN /\ nodes' = g.mesh.nodes
          /\ edges' = g.mesh.edges
          /\ graph_nodes_list' = g.graph_nodes_list
          /\ graph_edges_list' = g.mesh.graph_edges_list
          /\ number_of_nodes' = Len(g.graph_nodes_list)
          /\ number_of_edges' = Len(g.mesh.graph_edges_list)
    /\ pc' = "simplified"
    /\ UNCHANGED <<raised, raster_vars, render_vars, adjacency_vars>>

(***************************************************************************)
(* PixelVectorGraph.resolve_t_junctions_in_simplified_vector_graph().      *)
(***************************************************************************)
ResolveTJunctions ==
    /\ pc = "simplified"
    /\ edges' = resolve_t_junctions(nodes, edges, graph_nodes_list)
    /\ pc' = "t_resolved"
    /\ UNCHANGED <<raised, raster_vars, render_vars, adjacency_vars, nodes, graph_nodes_list,
                   graph_edges_list, number_of_nodes, number_of_edges>>

(***************************************************************************)
(* PixelVectorGraph.render(show_smoothened_image) on the dual graph, the   *)
(* simplified graph or the graph with its T-junctions resolved.  A call    *)
(* that does not return leaves "never returns" in raised.                  *)
(***************************************************************************)
Render ==
    /\ pc \in {"dual", "simplified", "t_resolved"}
    /\ \E show_smoothened_image \in BOOLEAN :
          /\ svg_elements' = render(nodes, edges, graph_edges_list, number_of_edges,
                                    show_smoothened_image).svg_elements
          /\ raised' = LET outcome == render(nodes, edges, graph_edges_list,
                                             number_of_edges,
                                             show_smoothened_image).outcome
                       IN IF outcome = "ok" THEN "none" ELSE outcome
          /\ render_call' = [after |-> pc, show_smoothened_image |-> show_smoothened_image]
    /\ pc' = "rendered"
    /\ UNCHANGED <<raster_vars, adjacency_vars, graph_vars, scale_factor, svg_code>>

\* The pipeline: import, adjacency graph, dual graph, simplification, T-junctions,
\* rendering.
Next ==
    \/ ImportInputRaster
    \/ ImportRejected
    \/ InitAdjacencyGraph
    \/ PruneDissimilarColours
    \/ PruneCompleteSubgraphs
    \/ PruneConflictingBegin
    \/ PruneConflictingBlock
    \/ PruneConflictingEnd
    \/ ConstructDualGraph
    \/ SimplifyDualGraph
    \/ ResolveTJunctions
    \/ Render

Spec == Init /\ [][Next]_vars

(***************************************************************************)
(* _add_t_junction_filler_svg_elements on its own.  The graph is one       *)
(* T-junction: a node B with three neighbours A, C and D drawn from a      *)
(* small square of positions, the dead-end edge d from A to B, its         *)
(* next_edge t1 from B to C, and t2, the next_edge of t1's twin, from B to *)
(* D.  Handles: nodes A, B, C, D are 1 to 4; edges d, its twin, t1, its     *)
(* twin, t2, its twin are 1 to 6.                                          *)
(***************************************************************************)
StarSpan == 2       \* A, C and D lie in a square of StarSpan whole units

StarCentre == <<4 * (StarSpan \div 2), 4 * (StarSpan \div 2)>>
StarPositions ==
    {<<4 * x, 4 * y>> : x \in 0 .. StarSpan, y \in 0 .. StarSpan} \ {StarCentre}

star_node(id, position, edge_list) ==
    [id |-> id, x4 |-> position[1], y4 |-> position[2], edge_list |-> edge_list]

star_edge(id, start_node, end_node, colour, next_edge, opposite_edge, dead_end) ==
    [id |-> id, start_node |-> start_node, end_node |-> end_node,
     pixel |-> [id |-> (id \div 2), colour |-> colour],
     next_edge |-> next_edge, opposite_edge |-> opposite_edge,
     is_dead_end_edge |-> dead_end]

InitFiller ==
    /\ pc = "t_junction"
    /\ raised = "none"
    /\ pixel_count = 0
    /\ pixel_grid = NoGrid
    /\ planarize = FALSE
    /\ adjacency_matrix = << >>
    /\ cursor = 0
    /\ is_node_planar = << >>
    /\ p3_log = << >>
    /\ set_edge_calls = 0
    /\ \E A \in StarPositions, C \in StarPositions, D \in StarPositions :
          /\ A # C /\ A # D /\ C # D
          /\ nodes = <<star_node(0, A, <<1>>), star_node(1, StarCentre, <<2, 3, 5>>),
                       star_node(2, C, <<4>>), star_node(3, D, <<6>>)>>
    /\ edges = <<star_edge(0, 1, 2, Black, 3, 2, TRUE),
                 star_edge(1, 2, 1, White, NoEdge, 1, FALSE),
                 star_edge(2, 2, 3, Black, NoEdge, 4, FALSE),
                 star_edge(3, 3, 2, Transparent, 5, 3, FALSE),
                 star_edge(4, 2, 4, Transparent, NoEdge, 6, FALSE),
                 star_edge(5, 4, 2, White, 2, 5, FALSE)>>
    /\ graph_nodes_list = <<1, 2, 3, 4>>
    /\ graph_edges_list = <<1, 2, 3, 4, 5, 6>>
    /\ number_of_nodes = 4
    /\ number_of_edges = 6
    /\ input_raster = NoRaster
    /\ import_call = NoImport
    /\ svg_elements = << >>
    /\ render_call = NoRender
    /\ scale_factor = DEFAULT_SCALE_FACTOR
    /\ svg_code = NoCode

AddTJunctionFiller ==
    /\ pc = "t_junction"
    /\ \E d \in {e \in DOMAIN edges : edges[e].is_dead_end_edge} :
          /\ svg_elements' =
                svg_elements \o add_t_junction_filler_svg_elements(nodes, edges, d).polygons
          /\ raised' = add_t_junction_filler_svg_elements(nodes, edges, d).raised
    /\ pc' = "filler_returned"
    /\ UNCHANGED <<raster_vars, adjacency_vars, graph_vars, render_call, scale_factor,
                   svg_code>>

NextFiller == AddTJunctionFiller

SpecFiller == InitFiller /\ [][NextFiller]_vars

(***************************************************************************)
(* The SVGRenderer on its own: built with a scale factor, it is given      *)
(* squares, lines and circles, cleared, and asked for its SVG code.        *)
(* Positions are world coordinates, never negative.                        *)
(***************************************************************************)
MaxSvgElements == 2     \* elements held by the renderer at most
MaxCoordinate == 3      \* coordinates of the points given
MaxLength == 2          \* side lengths and radii given

SvgScaleFactors == {1, DEFAULT_SCALE_FACTOR}
SvgColours == {<<10, 20, 30, 40>>, Black}
SvgPoints == {<<0, 0>>, <<2, MaxCoordinate>>, <<MaxCoordinate, 1>>}

InitSvg ==
    /\ pc = "svg"
    /\ raised = "none"
    /\ pixel_count = 0
    /\ pixel_grid = NoGrid
    /\ planarize = FALSE
    /\ adjacency_matrix = << >>
    /\ cursor = 0
    /\ is_node_planar = << >>
    /\ p3_log = << >>
    /\ set_edge_calls = 0
    /\ nodes = << >>
    /\ edges = << >>
    /\ graph_nodes_list = << >>
    /\ graph_edges_list = << >>
    /\ number_of_nodes = 0
    /\ number_of_edges = 0
    /\ input_raster = NoRaster
    /\ import_call = NoImport
    /\ svg_elements = << >>
    /\ render_call = NoRender
    /\ scale_factor \in SvgScaleFactors
    /\ svg_code = NoCode

SvgUnchanged ==
    UNCHANGED <<raised, raster_vars, adjacency_vars, graph_vars, render_call, scale_factor>>

AddSquare ==
    /\ pc \in {"svg", "svg_code"}
    /\ Len(svg_elements) < MaxSvgElements
    /\ \E square_side \in 1 .. MaxLength, colour \in SvgColours, position \in SvgPoints :
          svg_elements' = Append(svg_elements, square_element(square_side, colour, position))
    /\ pc' = "svg"
    /\ svg_code' = NoCode
    /\ SvgUnchanged

AddLine ==
    /\ pc \in {"svg", "svg_code"}
    /\ Len(svg_elements) < MaxSvgElements
    /\ \E point1 \in SvgPoints, point2 \in SvgPoints, colour \in SvgColours :
          svg_elements' = Append(svg_elements, line_element(point1, point2, colour))
    /\ pc' = "svg"
    /\ svg_code' = NoCode
    /\ SvgUnchanged

AddCircle ==
    /\ pc \in {"svg", "svg_code"}
    /\ Len(svg_elements) < MaxSvgElements
    /\ \E centre \in SvgPoints, radius \in 1 .. MaxLength, colour \in SvgColours :
          svg_elements' = Append(svg_elements, circle_element(centre, radius, colour))
    /\ pc' = "svg"
    /\ svg_code' = NoCode
    /\ SvgUnchanged

Clear ==
    /\ pc \in {"svg", "svg_code"}
    /\ svg_elements # << >>
    /\ svg_elements' = << >>
    /\ pc' = "svg"
    /\ svg_code' = NoCode
    /\ SvgUnchanged

GetSvgCode ==
    /\ pc = "svg"
    /\ svg_elements' = rescaled(svg_elements, scale_factor)
    /\ svg_code' = get_svg_code(rescaled(svg_elements, scale_factor))
    /\ pc' = "svg_code"
    /\ SvgUnchanged

NextSvg ==
    \/ AddSquare
    \/ AddLine
    \/ AddCircle
    \/ Clear
    \/ GetSvgCode

SpecSvg == InitSvg /\ [][NextSvg]_vars

(***************************************************************************)
(* Properties.                                                             *)
(***************************************************************************)
Cells == (0 .. Rows - 1) \X (0 .. Cols - 1)
BlockSet == {Blocks[n] : n \in 1 .. Len(Blocks)}

\* The neighbour of (row, col) along edge_index is a cell of the grid.
NeighbourInGrid(row, col, edge_index) ==
    /\ get_neighbouring_node(row, col, edge_index)[1] \in 0 .. Rows - 1
    /\ get_neighbouring_node(row, col, edge_index)[2] \in 0 .. Cols - 1

\* The constructor of PixelAdjacencyGraph has returned.
Constructed == pc \in {"adj_done", "dual", "dual_raised", "simplified", "t_resolved", "rendered"}

ListedEdges == {graph_edges_list[i] : i \in 1 .. Len(graph_edges_list)}
ListedNodes == {graph_nodes_list[i] : i \in 1 .. Len(graph_nodes_list)}
EdgesWithNext == {e \in ListedEdges : edges[e].next_edge # NoEdge}

(***************************************************************************)
(* C1.  Once the adjacency graph is constructed, and after any sequence of *)
(* set_edge calls on it, every flag whose neighbour lies inside the grid   *)
(* equals the opposite flag of that neighbour: A[r,c,k] = A[nr,nc,7-k].    *)
(***************************************************************************)
AdjacencySymmetric ==
    pc = "adj_done" =>
        \A cell \in Cells, k \in 0 .. 7 :
            NeighbourInGrid(cell[1], cell[2], k) =>
                adjacency_matrix[cell[1]][cell[2]][k]
                    = adjacency_matrix[get_neighbouring_node(cell[1], cell[2], k)[1]]
                                      [get_neighbouring_node(cell[1], cell[2], k)[2]][7 - k]

\* A planarized graph on which set_edge has put back an edge between two cells
\* of different colours, and on which a set_edge call has raised.
SetEdgeRestoredPrunedEdge ==
    /\ pc = "adj_done" /\ planarize /\ set_edge_calls > 1
    /\ raised = "IndexError"
    /\ \E cell \in Cells, k \in 0 .. 7 :
          /\ NeighbourInGrid(cell[1], cell[2], k)
          /\ adjacency_matrix[cell[1]][cell[2]][k]
          /\ ~ColourEq(pixel_grid.px[cell[1]][cell[2]].colour,
                       pixel_grid.px[get_neighbouring_node(cell[1], cell[2], k)[1]]
                                    [get_neighbouring_node(cell[1], cell[2], k)[2]].colour)

(***************************************************************************)
(* C2.  Whenever the constructor returns with make_graph_planar = True,    *)
(* no 2x2 block has both of its diagonals set.                             *)
(***************************************************************************)
PlanarAfterConstruction ==
    (Constructed /\ planarize) =>
        \A b \in BlockSet : ~BlockConflicts(adjacency_matrix, b[1], b[2])

\* The constructor has returned after P3 met a block with both diagonals set.
ConflictResolvedByHeuristic ==
    /\ Constructed /\ planarize
    /\ \E i \in 1 .. Len(p3_log) : p3_log[i].conflict /\ p3_log[i].by = "chains"

(***************************************************************************)
(* C3.  When the three heuristics of P3 tie on a block with both diagonals *)
(* set, the constructor does not raise, both diagonals of the block stay   *)
(* set and the non-planar mask reports the four cells of the block.        *)
(***************************************************************************)
\* The cells reached from the cells of S along set flags.
RECURSIVE ConnectedTo(_, _)
ConnectedTo(matrix, S) ==
    LET step == S \cup {n \in Cells : \E cell \in S, k \in 0 .. 7 :
                           /\ NeighbourInGrid(cell[1], cell[2], k)
                           /\ matrix[cell[1]][cell[2]][k]
                           /\ n = get_neighbouring_node(cell[1], cell[2], k)}
    IN IF step = S THEN S ELSE ConnectedTo(matrix, step)

\* The number of connected components of the graph `matrix` describes: the
\* quantity heuristic 3 is to compare.
ConnectedComponents(matrix) == Cardinality({ConnectedTo(matrix, {cell}) : cell \in Cells})

\* The block of a p3_log record leaves each of the three comparisons undecided.
HeuristicsTie(b) ==
    /\ b.dexter_chain = b.sinister_chain
    /\ ~(b.dexter_count > 0 /\ RatioAtLeast(b.sinister_count, b.dexter_count))
    /\ ~(b.sinister_count > 0 /\ RatioAtLeast(b.dexter_count, b.sinister_count))
    /\ ConnectedComponents(set_edge(b.before, b.row, b.col, 7, FALSE).m)
           = ConnectedComponents(set_edge(b.before, b.row + 1, b.col, 2, FALSE).m)

TieLeavesBlockNonPlanar ==
    \A i \in 1 .. Len(p3_log) :
        (p3_log[i].conflict /\ HeuristicsTie(p3_log[i])) =>
            /\ raised = "none"
            /\ pc # "adj_raised"
            /\ BlockConflicts(adjacency_matrix, p3_log[i].row, p3_log[i].col)
            /\ BlockSelected(get_non_planar_nodes(adjacency_matrix),
                             p3_log[i].row, p3_log[i].col)

(***************************************************************************)
(* C4.  In every state reached by construction, planarization and any      *)
(* sequence of set_edge calls, every flag that points outside the grid is  *)
(* false.                                                                  *)
(***************************************************************************)
BorderFlagsClear ==
    pc \notin {"new", "imported"} =>
        \A cell \in Cells, k \in 0 .. 7 :
            ~NeighbourInGrid(cell[1], cell[2], k) => ~adjacency_matrix[cell[1]][cell[2]][k]

(***************************************************************************)
(* C5.  A grid box over a block whose two diagonals are both set is built  *)
(* with the "no diagonal" template: its four twin pairs run through the    *)
(* central slot 0 and no edge touches the diagonal slots 1 to 4.           *)
(***************************************************************************)
SlotDegree(row, col, slot) ==
    Len(nodes[GridBox(NodeCreationOrder, row, col, slot)].edge_list)

ConflictBoxHasNoDiagonal ==
    pc = "dual" =>
        \A b \in BlockSet :
            BlockConflicts(adjacency_matrix, b[1], b[2]) =>
                /\ SlotDegree(b[1], b[2], 0) = 4
                /\ \A slot \in 1 .. 4 : SlotDegree(b[1], b[2], slot) = 0

(***************************************************************************)
(* C6.  After construct_dual_graph and after simplify_dual_graph, every    *)
(* edge of graph_edges_list has its twin in graph_edges_list, and the twin *)
(* of its twin is the edge itself.                                         *)
(***************************************************************************)
TwinsArePaired ==
    pc \in {"dual", "simplified"} =>
        \A e \in ListedEdges :
            /\ edges[e].opposite_edge \in ListedEdges
            /\ edges[edges[e].opposite_edge].opposite_edge = e

\* A simplified mesh that lost edges and kept others.
SimplifiedKeptSomeEdges ==
    /\ pc = "simplified"
    /\ graph_edges_list # << >>
    /\ Len(graph_edges_list) < Len(edges)

(***************************************************************************)
(* C7.  After construct_dual_graph and after simplify_dual_graph, the      *)
(* next_edge of an edge of graph_edges_list, where set, is an edge of      *)
(* graph_edges_list that starts at the node the edge ends at.              *)
(***************************************************************************)
NextStartsAtEnd ==
    pc \in {"dual", "simplified"} =>
        \A e \in EdgesWithNext :
            /\ edges[e].next_edge \in ListedEdges
            /\ edges[edges[e].next_edge].start_node = edges[e].end_node

\* A simplified mesh with edges whose next_edge is set and edges whose is not.
SimplifiedWithAndWithoutNext ==
    /\ pc = "simplified"
    /\ EdgesWithNext # {}
    /\ EdgesWithNext # ListedEdges

(***************************************************************************)
(* C8.  As claimed: after construct_dual_graph and after                   *)
(* simplify_dual_graph, the next_edge of an edge, where set, is owned by   *)
(* the pixel with the same id.                                             *)
(***************************************************************************)
NextKeepsPixelId ==
    pc \in {"dual", "simplified"} =>
        \A e \in EdgesWithNext : edges[edges[e].next_edge].pixel.id = edges[e].pixel.id

(***************************************************************************)
(* C8, amended.  After construct_dual_graph the next_edge of an edge, where *)
(* set, is owned by the pixel with the same id; after simplify_dual_graph  *)
(* it is owned by a pixel of the same colour.                              *)
(***************************************************************************)
NextKeepsPixelThenColour ==
    /\ pc = "dual" =>
          \A e \in EdgesWithNext : edges[edges[e].next_edge].pixel.id = edges[e].pixel.id
    /\ pc = "simplified" =>
          \A e \in EdgesWithNext :
              ColourEq(edges[edges[e].next_edge].pixel.colour, edges[e].pixel.colour)

\* A simplified mesh where a next_edge is owned by another pixel.
NextOwnedByOtherPixel ==
    /\ pc = "simplified"
    /\ \E e \in EdgesWithNext : edges[edges[e].next_edge].pixel.id # edges[e].pixel.id

(***************************************************************************)
(* C9.  As claimed: after simplify_dual_graph no node of graph_nodes_list  *)
(* has exactly two outgoing edges.                                         *)
(***************************************************************************)
NoNodeOfDegreeTwo ==
    pc = "simplified" => \A h \in ListedNodes : Len(nodes[h].edge_list) # 2

(***************************************************************************)
(* C9, amended.  simplify_dual_graph removes from graph_nodes_list every   *)
(* node that has exactly two outgoing edges when it is called; a node it   *)
(* leaves with exactly two outgoing edges had more than two when it was    *)
(* called.                                                                 *)
(***************************************************************************)
DegreeTwoNodesAreCollapsed ==
    [][(pc = "dual" /\ pc' = "simplified") =>
          /\ \A h \in ListedNodes :
                Len(nodes[h].edge_list) = 2 => ~InList(graph_nodes_list', h)
          /\ \A h \in DOMAIN nodes' :
                (InList(graph_nodes_list', h) /\ Len(nodes'[h].edge_list) = 2) =>
                    Len(nodes[h].edge_list) > 2]_vars

\* A simplified mesh with a listed node of exactly two outgoing edges.
SimplifiedHasDegreeTwoNode ==
    /\ pc = "simplified"
    /\ Len(graph_nodes_list) < Len(nodes)
    /\ \E h \in ListedNodes : Len(nodes[h].edge_list) = 2

(***************************************************************************)
(* C10.  After simplify_dual_graph no edge of graph_edges_list is owned by *)
(* a pixel of the same colour as the pixel that owns its twin.             *)
(***************************************************************************)
EveryEdgeIsColourBoundary ==
    pc = "simplified" =>
        \A e \in ListedEdges :
            ~ColourEq(edges[e].pixel.colour, edges[edges[e].opposite_edge].pixel.colour)

\* A simplified mesh that kept a boundary and lost an edge between two pixels
\* of one colour.
ColourBoundaryKeptInteriorDropped ==
    /\ pc = "simplified"
    /\ ListedEdges # {}
    /\ \E e \in DOMAIN edges \ ListedEdges :
          /\ edges[edges[e].opposite_edge].opposite_edge = e
          /\ ColourEq(edges[e].pixel.colour, edges[edges[e].opposite_edge].pixel.colour)

(***************************************************************************)
(* C11.  After resolve_t_junctions_in_simplified_vector_graph, every node  *)
(* with exactly three outgoing edges has exactly one inward edge (a twin   *)
(* of an outgoing edge) flagged dead-end, and it is the one whose index is *)
(* not in the pair of outgoing directions with the largest angular gap.    *)
(***************************************************************************)
TJunctionNodes == {h \in ListedNodes : Len(nodes[h].edge_list) = 3}

\* The vector from node h to the end of its i-th outgoing edge (y upwards).
\* No outgoing edge of a listed node ends at a node in the same place.
Outgoing(h, i) ==
    <<nodes[edges[nodes[h].edge_list[i]].end_node].x4 - nodes[h].x4,
      nodes[h].y4 - nodes[edges[nodes[h].edge_list[i]].end_node].y4>>

\* The angle between Outgoing(h, a) and Outgoing(h, b) is the largest of the
\* three angles between outgoing directions at h (compared by their cosines).
LargestGap(h, a, b, c) ==
    /\ SignedSquare(Dot(Outgoing(h, a), Outgoing(h, b)))
           * Dot(Outgoing(h, c), Outgoing(h, c))
       <= SignedSquare(Dot(Outgoing(h, b), Outgoing(h, c)))
           * Dot(Outgoing(h, a), Outgoing(h, a))
    /\ SignedSquare(Dot(Outgoing(h, a), Outgoing(h, b)))
           * Dot(Outgoing(h, c), Outgoing(h, c))
       <= SignedSquare(Dot(Outgoing(h, c), Outgoing(h, a)))
           * Dot(Outgoing(h, b), Outgoing(h, b))

Flagged(h, i) == edges[edges[nodes[h].edge_list[i]].opposite_edge].is_dead_end_edge

OneDeadEndOppositeWidestGap ==
    pc = "t_resolved" =>
        \A h \in TJunctionNodes :
            /\ Cardinality({i \in 1 .. 3 : Flagged(h, i)}) = 1
            /\ Flagged(h, 3) => LargestGap(h, 1, 2, 3)
            /\ Flagged(h, 1) => LargestGap(h, 2, 3, 1)
            /\ Flagged(h, 2) => LargestGap(h, 3, 1, 2)

\* T-junctions were resolved on a graph that has some.
TJunctionsResolved == pc = "t_resolved" /\ Cardinality(TJunctionNodes) > 1

(***************************************************************************)
(* C12.  After simplify_dual_graph on a padded raster, following next_edge *)
(* from any edge of graph_edges_list comes back to that edge within        *)
(* number_of_edges steps and meets no unset next_edge on the way; the      *)
(* region-tracing loops of render return.                                  *)
(***************************************************************************)
Padded == pc # "new" /\ import_call.add_padding

AfterSimplify ==
    \/ pc \in {"simplified", "t_resolved"}
    \/ pc = "rendered" /\ render_call.after \in {"simplified", "t_resolved"}

\* The edge k steps of next_edge after e; an unset next_edge ends the walk.
RECURSIVE NextEdgeAfter(_, _)
NextEdgeAfter(e, k) ==
    IF k = 0 \/ e = NoEdge THEN e ELSE NextEdgeAfter(edges[e].next_edge, k - 1)

RegionBoundariesAreCycles ==
    (AfterSimplify /\ Padded) =>
        /\ \A e \in ListedEdges :
              \E k \in 1 .. number_of_edges : NextEdgeAfter(e, k) = e
        /\ pc = "rendered" => raised # "never returns"

\* A padded raster whose simplified graph was rendered as several regions.
SeveralRegionsTraced ==
    /\ pc = "rendered" /\ Padded
    /\ render_call = [after |-> "simplified", show_smoothened_image |-> FALSE]
    /\ raised = "none"
    /\ Len(svg_elements) >= 3
    /\ number_of_edges > 8

(***************************************************************************)
(* C13.  For a raster of one colour, the pipeline with padding and         *)
(* planarization, simplify_dual_graph and render leaves a simplified graph *)
(* with one region, the padded frame, and exactly one filled element in    *)
(* the SVG.                                                                *)
(***************************************************************************)
UniformColour ==
    /\ input_raster # NoRaster
    /\ \A r \in 0 .. input_raster.h - 1, c \in 0 .. input_raster.w - 1 :
          ColourEq(input_raster.px[r][c], input_raster.px[0][0])

UniformRasterIsOneRegion ==
    (/\ pc = "rendered" /\ Padded /\ planarize /\ UniformColour
     /\ render_call.after = "simplified") =>
        /\ raised = "none"
        /\ ListedEdges # {}
        /\ \A e \in ListedEdges : \A k \in 0 .. number_of_edges :
              NextEdgeAfter(e, k) \in ListedEdges
        /\ Len(svg_elements) = 1

(***************************************************************************)
(* C14.  For a checkerboard of two colours and side at least 2, on every   *)
(* conflicting block P3 reaches heuristic 1 finds equal chain lengths and  *)
(* heuristic 2 finds equal colour counts: neither removes a diagonal and   *)
(* heuristic 3 alone is left to decide the block.                          *)
(***************************************************************************)
Checkerboard ==
    /\ input_raster.h >= 2 /\ input_raster.w >= 2
    /\ ~ColourEq(input_raster.px[0][0], input_raster.px[0][1])
    /\ \A r \in 0 .. input_raster.h - 1, c \in 0 .. input_raster.w - 1 :
          ColourEq(input_raster.px[r][c], input_raster.px[0][(r + c) % 2])

CheckerboardLeftToHeuristicThree ==
    (planarize /\ Checkerboard) =>
        \A i \in 1 .. Len(p3_log) :
            p3_log[i].conflict =>
                /\ p3_log[i].dexter_chain = p3_log[i].sinister_chain
                /\ p3_log[i].dexter_count = p3_log[i].sinister_count
                /\ p3_log[i].by \notin {"chains", "colour"}

(***************************************************************************)
(* C15.  For a 2x2 raster of three black pixels in an L and one white      *)
(* pixel, the pipeline with padding and planarization up to the resolution *)
(* of the T-junctions leaves exactly one node of degree 3, at the inner    *)
(* corner of the L (the centre of the raster), and exactly one inward edge *)
(* of that node is flagged as a dead end.                                  *)
(***************************************************************************)
LShape ==
    /\ input_raster.h = 2 /\ input_raster.w = 2
    /\ Cardinality({cell \in (0 .. 1) \X (0 .. 1) :
                       ColourEq(input_raster.px[cell[1]][cell[2]], Black)}) = 3
    /\ Cardinality({cell \in (0 .. 1) \X (0 .. 1) :
                       ColourEq(input_raster.px[cell[1]][cell[2]], White)}) = 1

\* The centre of the 2x2 raster inside the padded grid, in quarter units.
InnerCorner == <<8, 8>>

LShapeHasOneTJunction ==
    (pc = "t_resolved" /\ Padded /\ planarize /\ LShape) =>
        /\ Cardinality(TJunctionNodes) = 1
        /\ \A h \in TJunctionNodes :
              /\ <<nodes[h].x4, nodes[h].y4>> = InnerCorner
              /\ Cardinality({i \in 1 .. 3 : Flagged(h, i)}) = 1

(***************************************************************************)
(* C16.  Where the line through the centre of the dead-end edge d and its  *)
(* end is parallel to the line through the centres of t1 and t2, the       *)
(* filler does not fail: it takes the end of d as the common point and     *)
(* adds both triangles.                                                    *)
(***************************************************************************)
\* Twice the vector from the centre of edge e to its end, and from the centre
\* of edge e to the centre of edge f.
CentreToEnd(e) ==
    <<nodes[edges[e].end_node].x4 - nodes[edges[e].start_node].x4,
      nodes[edges[e].end_node].y4 - nodes[edges[e].start_node].y4>>
CentreToCentre(e, f) ==
    <<(nodes[edges[f].start_node].x4 + nodes[edges[f].end_node].x4)
        - (nodes[edges[e].start_node].x4 + nodes[edges[e].end_node].x4),
      (nodes[edges[f].start_node].y4 + nodes[edges[f].end_node].y4)
        - (nodes[edges[e].start_node].y4 + nodes[edges[e].end_node].y4)>>

FillerLinesParallel(d) ==
    LET u == CentreToEnd(d)
        w == CentreToCentre(edges[d].next_edge,
                            edges[edges[edges[d].next_edge].opposite_edge].next_edge)
    IN u[1] * w[2] - u[2] * w[1] = 0

BorderCells ==
    {cell \in (0 .. pixel_grid.h - 1) \X (0 .. pixel_grid.w - 1) :
        cell[1] \in {0, pixel_grid.h - 1} \/ cell[2] \in {0, pixel_grid.w - 1}}

SinglePixelSurroundedByTransparent ==
    (Padded /\ input_raster.h = 1 /\ input_raster.w = 1) =>
        /\ pixel_grid.h = 3 /\ pixel_grid.w = 3
        /\ \A cell \in BorderCells :
              ColourEq(pixel_grid.px[cell[1]][cell[2]].colour, Transparent)

(***************************************************************************)
(* C19.  An array whose rank is not 3 or whose last dimension is not 4 is  *)
(* rejected before any state is created: no pixel is created, pixel_grid   *)
(* is left as it was and the array is not kept as input_raster.  Before    *)
(* the first accepted import only rejected imports have taken place.       *)
(***************************************************************************)
RejectedArrayLeavesNoState ==
    pc = "new" =>
        /\ pixel_count = 0
        /\ pixel_grid = NoGrid
        /\ input_raster = NoRaster

(***************************************************************************)
(* C20.  A square at (2, 3) of side 1 and colour (10, 20, 30, 40) in a     *)
(* renderer of scale factor 20 is written exactly as                       *)
(* <rect width="20" height="20" fill="rgba(10, 20, 30, 40)"                *)
(* transform="translate(40, 60)"/> and the canvas is at least (60, 80);    *)
(* the canvas of a renderer holding elements is, in each coordinate, the   *)
(* maximum over the bound points of all its elements of the coordinate     *)
(* times the scale factor.                                                 *)
(***************************************************************************)
IsClaimedSquare(e) ==
    /\ e.kind = "square" /\ e.position = <<2, 3>> /\ e.side_length = 1
    /\ e.colour = <<10, 20, 30, 40>>

BoundPoints ==
    UNION {{svg_elements[i].bound_points[k] : k \in 1 .. Len(svg_elements[i].bound_points)} :
              i \in 1 .. Len(svg_elements)}

IsMaximum(m, S) == m \in S /\ \A n \in S : n <= m

ColourAt(cell) == pixel_grid.px[cell[1]][cell[2]].colour

Neighbour(cell, k) == get_neighbouring_node(cell[1], cell[2], k)

EdgesJoinEqualColoursAfterP1 ==
    pc = "P2" =>
        \A cell \in Cells, k \in 0 .. 7 :
            NeighbourInGrid(cell[1], cell[2], k) =>
                (adjacency_matrix[cell[1]][cell[2]][k]
                    <=> ColourAt(cell) = ColourAt(Neighbour(cell, k)))

\* P1 has run on a grid where it kept an edge and cleared an edge between two
\* pixels that differ in their alpha channel alone.
P1ClearedAlphaOnlyDifference ==
    /\ pc = "P2"
    /\ \E cell \in Cells, k \in 0 .. 7 :
          /\ NeighbourInGrid(cell[1], cell[2], k)
          /\ adjacency_matrix[cell[1]][cell[2]][k]
    /\ \E cell \in Cells, k \in 0 .. 7 :
          /\ NeighbourInGrid(cell[1], cell[2], k)
          /\ ~adjacency_matrix[cell[1]][cell[2]][k]
          /\ RgbEq(ColourAt(cell), ColourAt(Neighbour(cell, k)))

(***************************************************************************)
(* C22.  Pass P2 clears both diagonals of every 2x2 block whose four       *)
(* orthogonal edges and two diagonals are all set, and changes no other    *)
(* flag; after P2 no block of four pixels of one colour has a diagonal.    *)
(***************************************************************************)
\* The four flags that hold the two diagonals of block b.
DiagonalFlags(b) ==
    {<<b[1], b[2], 7>>, <<b[1] + 1, b[2] + 1, 0>>, <<b[1] + 1, b[2], 2>>, <<b[1], b[2] + 1, 5>>}

FourEdgesAndBothDiagonals(matrix, b) ==
    /\ matrix[b[1]][b[2]][4] /\ matrix[b[1]][b[2]][6]
    /\ matrix[b[1]][b[2] + 1][6] /\ matrix[b[1] + 1][b[2]][4]
    /\ matrix[b[1]][b[2]][7] /\ matrix[b[1]][b[2] + 1][5]

BlockCells(b) == {<<b[1], b[2]>>, <<b[1], b[2] + 1>>, <<b[1] + 1, b[2]>>, <<b[1] + 1, b[2] + 1>>}

OneColour(b) == \A cell \in BlockCells(b) : ColourAt(cell) = ColourAt(b)

P2ClearsDiagonalsOfCompleteBlocks ==
    [][PruneCompleteSubgraphs =>
        /\ \A cell \in Cells, k \in 0 .. 7 :
              adjacency_matrix'[cell[1]][cell[2]][k] =
                  (/\ adjacency_matrix[cell[1]][cell[2]][k]
                   /\ ~ \E b \in BlockSet :
                         /\ FourEdgesAndBothDiagonals(adjacency_matrix, b)
                         /\ <<cell[1], cell[2], k>> \in DiagonalFlags(b))
        /\ \A b \in BlockSet : OneColour(b) =>
              \A f \in DiagonalFlags(b) : ~adjacency_matrix'[f[1]][f[2]][f[3]]]_vars

\* P2 has run on a grid with a block of one colour and, elsewhere, a diagonal
\* it left set.
P2LeftDiagonalOfMixedBlock ==
    /\ pc = "P3_begin"
    /\ \E b \in BlockSet : OneColour(b)
    /\ \E b \in BlockSet : \E f \in DiagonalFlags(b) : adjacency_matrix[f[1]][f[2]][f[3]]

(***************************************************************************)
(* C23.  On a block with both diagonals set, heuristic 1 takes as the      *)
(* chain length of a diagonal the number of cells of degree at most 2      *)
(* reached from the diagonal's two ends along set edges through cells of   *)
(* degree at most 2; a strictly longer chain is kept, only the other       *)
(* diagonal is cleared and the block is reported resolved; equal lengths   *)
(* change no edge and leave the block to the next heuristic.               *)
(***************************************************************************)
\* The cells reached from S along set edges leaving cells of degree at most 2.
RECURSIVE ChainReach(_, _)
ChainReach(matrix, S) ==
    IF S = S \cup {n \in Cells : \E cell \in S, k \in 0 .. 7 :
                      /\ node_degree(matrix, cell[1], cell[2]) <= 2
                      /\ matrix[cell[1]][cell[2]][k]
                      /\ n = Neighbour(cell, k)}
    THEN S
    ELSE ChainReach(matrix, S \cup {n \in Cells : \E cell \in S, k \in 0 .. 7 :
                                       /\ node_degree(matrix, cell[1], cell[2]) <= 2
                                       /\ matrix[cell[1]][cell[2]][k]
                                       /\ n = Neighbour(cell, k)})

ChainCells(matrix, ends) ==
    Cardinality({cell \in ChainReach(matrix, ends) : node_degree(matrix, cell[1], cell[2]) <= 2})

DexterEnds(b) == {<<b[1], b[2]>>, <<b[1] + 1, b[2] + 1>>}
SinisterEnds(b) == {<<b[1] + 1, b[2]>>, <<b[1], b[2] + 1>>}

DexterFlags(b) == {<<b[1], b[2], 7>>, <<b[1] + 1, b[2] + 1, 0>>}
SinisterFlags(b) == {<<b[1] + 1, b[2], 2>>, <<b[1], b[2] + 1, 5>>}

\* `matrix` with the flags of F cleared and every other flag as it was.
WithoutFlags(matrix, F) ==
    [r \in 0 .. Rows - 1 |-> [c \in 0 .. Cols - 1 |-> [k \in 0 .. 7 |->
        matrix[r][c][k] /\ <<r, c, k>> \notin F]]]

\* The record P3 logs for the block it visits in this step.
Visited == p3_log'[Len(p3_log')]
VisitedBlock == <<Visited.row, Visited.col>>

LongerChainIsPreserved ==
    [][(PruneConflictingBlock /\ Visited.conflict) =>
        /\ Visited.dexter_chain = ChainCells(adjacency_matrix, DexterEnds(VisitedBlock))
        /\ Visited.sinister_chain = ChainCells(adjacency_matrix, SinisterEnds(VisitedBlock))
        /\ Visited.dexter_chain > Visited.sinister_chain =>
              /\ Visited.by = "chains"
              /\ adjacency_matrix' = WithoutFlags(adjacency_matrix, SinisterFlags(VisitedBlock))
        /\ Visited.dexter_chain < Visited.sinister_chain =>
              /\ Visited.by = "chains"
              /\ adjacency_matrix' = WithoutFlags(adjacency_matrix, DexterFlags(VisitedBlock))
        /\ Visited.dexter_chain = Visited.sinister_chain =>
              /\ Visited.by # "chains"
              /\ resolve_edge_conflict_by_preserving_chains(
                     adjacency_matrix, Visited.row, Visited.col)
                   = [m |-> adjacency_matrix, resolved |-> FALSE]]_vars

\* The constructor has returned after heuristic 1 kept the dexter diagonal of a
\* block whose two chains were both not empty.
LongerDexterChainKept ==
    /\ pc = "adj_done"
    /\ \E i \in 1 .. Len(p3_log) :
          /\ p3_log[i].conflict /\ p3_log[i].by = "chains"
          /\ p3_log[i].dexter_chain > p3_log[i].sinister_chain
          /\ p3_log[i].sinister_chain > 0
          /\ adjacency_matrix[p3_log[i].row][p3_log[i].col][7]

(***************************************************************************)
(* C24.  On a block with both diagonals set that heuristic 1 left          *)
(* undecided, heuristic 2 counts the pixels of each diagonal's colour over *)
(* rows r-2 .. r+3 and columns c-2 .. c+3, as far as they lie in the grid; *)
(* if the larger count is at least 4 times the smaller it clears the       *)
(* diagonal of the more common colour, otherwise it changes no edge and    *)
(* leaves the block to heuristic 3.                                        *)
(***************************************************************************)
CentredWindow(b) ==
    {cell \in Cells : /\ b[1] - 2 <= cell[1] /\ cell[1] <= b[1] + 3
                      /\ b[2] - 2 <= cell[2] /\ cell[2] <= b[2] + 3}

CentredCount(b, colour) ==
    Cardinality({cell \in CentredWindow(b) : ColourAt(cell) = colour})

CentredDexter(b) == CentredCount(b, ColourAt(b))
CentredSinister(b) == CentredCount(b, ColourAt(<<b[1], b[2] + 1>>))

RarerColourOfCentredWindowKept ==
    [][(/\ PruneConflictingBlock
        /\ Visited.conflict
        /\ Visited.dexter_chain = Visited.sinister_chain) =>
        /\ CentredDexter(VisitedBlock) >= 4 * CentredSinister(VisitedBlock) =>
              /\ Visited.by = "colour"
              /\ adjacency_matrix' = WithoutFlags(adjacency_matrix, DexterFlags(VisitedBlock))
        /\ CentredSinister(VisitedBlock) >= 4 * CentredDexter(VisitedBlock) =>
              /\ Visited.by = "colour"
              /\ adjacency_matrix' = WithoutFlags(adjacency_matrix, SinisterFlags(VisitedBlock))
        /\ (/\ CentredDexter(VisitedBlock) < 4 * CentredSinister(VisitedBlock)
            /\ CentredSinister(VisitedBlock) < 4 * CentredDexter(VisitedBlock)) =>
              /\ Visited.by # "colour"
              /\ resolve_edge_conflict_by_preserving_more_prominent_edge_colour(
                     adjacency_matrix, get_pixel_art_image(pixel_grid),
                     Visited.row, Visited.col)
                   = [m |-> adjacency_matrix, resolved |-> FALSE]]_vars

(***************************************************************************)
(* C25.  On a block with both diagonals set that heuristics 1 and 2 left   *)
(* undecided, heuristic 3 removes each diagonal in turn in a copy of the   *)
(* matrix, counts the connected components of each copy, and clears in the *)
(* matrix itself only the diagonal whose removal gave fewer components.    *)
(***************************************************************************)
ComponentsWithout(F) == ConnectedComponents(WithoutFlags(adjacency_matrix, F))

FewerComponentsDiagonalCleared ==
    [][(/\ PruneConflictingBlock
        /\ Visited.conflict
        /\ Visited.by \notin {"chains", "colour"}) =>
        /\ raised' = "none"
        /\ ComponentsWithout(DexterFlags(VisitedBlock))
               < ComponentsWithout(SinisterFlags(VisitedBlock)) =>
              adjacency_matrix' = WithoutFlags(adjacency_matrix, DexterFlags(VisitedBlock))
        /\ ComponentsWithout(DexterFlags(VisitedBlock))
               > ComponentsWithout(SinisterFlags(VisitedBlock)) =>
              adjacency_matrix' = WithoutFlags(adjacency_matrix, SinisterFlags(VisitedBlock))]_vars

(***************************************************************************)
(* C26.  Planarization runs P1 to its end before P2 and P2 to its end      *)
(* before P3; P3 visits the blocks in row-major order; on a block the      *)
(* heuristics are tried in the order chain length, colour count, component *)
(* count, a later one only if every earlier one left the block undecided;  *)
(* the non-planar mask is computed again from the matrix after each block  *)
(* P3 has processed, before the next block is examined.                    *)
(***************************************************************************)
\* The place of block b in row-major order.
BlockRank(b) == b[1] * (Cols - 1) + b[2] + 1

LastRank == IF p3_log = << >> THEN 0
            ELSE BlockRank(<<p3_log[Len(p3_log)].row, p3_log[Len(p3_log)].col>>)

\* The mask the matrix calls for: a cell is planar unless it lies in a block
\* with both diagonals set.
MaskOf(matrix) ==
    [r \in 0 .. Rows - 1 |-> [c \in 0 .. Cols - 1 |->
        \A b \in BlockSet : <<r, c>> \in BlockCells(b) =>
            ~(matrix[b[1]][b[2]][7] /\ matrix[b[1]][b[2] + 1][5])]]

ColourCountDecides(rec) ==
    \/ rec.dexter_count > 0 /\ rec.sinister_count >= 4 * rec.dexter_count
    \/ rec.sinister_count > 0 /\ rec.dexter_count >= 4 * rec.sinister_count

PassesAndHeuristicsInOrder ==
    [][/\ pc' = "P2" => pc \in {"P1", "P2"}
       /\ pc' = "P3_begin" => pc \in {"P2", "P3_begin"}
       /\ pc' = "P3" => pc \in {"P3_begin", "P3"}
       /\ (pc = "P2" /\ pc' = "P3_begin") =>
             /\ \A cell \in Cells, k \in 0 .. 7 :
                   NeighbourInGrid(cell[1], cell[2], k) =>
                       (adjacency_matrix[cell[1]][cell[2]][k]
                           <=> ColourAt(cell) = ColourAt(Neighbour(cell, k)))
             /\ \A b \in BlockSet : ~FourEdgesAndBothDiagonals(adjacency_matrix', b)
       /\ (pc = "P3_begin" /\ pc' = "P3") =>
             /\ adjacency_matrix' = adjacency_matrix
             /\ \A b \in BlockSet : ~FourEdgesAndBothDiagonals(adjacency_matrix, b)
       /\ PruneConflictingBlock =>
             /\ LastRank < BlockRank(VisitedBlock)
             /\ BlockSelected(is_node_planar, Visited.row, Visited.col)
             /\ \A b \in BlockSet :
                   (LastRank < BlockRank(b) /\ BlockRank(b) < BlockRank(VisitedBlock)) =>
                       ~BlockSelected(is_node_planar, b[1], b[2])
             /\ Visited.by = "chains" <=> Visited.dexter_chain # Visited.sinister_chain
             /\ Visited.by = "colour" <=>
                   (Visited.dexter_chain = Visited.sinister_chain /\ ColourCountDecides(Visited))
       /\ pc' = "P3" => is_node_planar' = MaskOf(adjacency_matrix')]_vars

\* The constructor has returned after P3 processed two blocks: the first was
\* left to heuristic 2 by heuristic 1, the second was selected by a mask
\* computed after the first had lost a diagonal.
SecondBlockSeenThroughNewMask ==
    /\ pc = "adj_done"
    /\ Len(p3_log) > 1
    /\ p3_log[1].by = "colour"
    /\ p3_log[2].conflict
    /\ p3_log[2].before # p3_log[1].before

(***************************************************************************)
(* C27.  In smoothed rendering every dead-end edge d adds exactly two      *)
(* filler triangles to the output, one through mid(t1) and mid(d) in the   *)
(* colour of d's pixel and one through mid(t2) and mid(d) in the colour of *)
(* the pixel of d's twin, with t1 = d.next and t2 = d.next.opposite.next,  *)
(* and adds the pair once only.                                            *)
(***************************************************************************)
DeadEndEdges == {d \in ListedEdges : edges[d].is_dead_end_edge}

\* The three-point polygons of the output in `colour` whose second and third
\* points are the centres of t and d.
FillerTriangles(d, t, colour) ==
    {i \in 1 .. Len(svg_elements) :
        /\ svg_elements[i].kind = "polygon"
        /\ Len(svg_elements[i].points) = 3
        /\ svg_elements[i].colour = colour
        /\ svg_elements[i].points[2] = get_centre(nodes, edges, t)
        /\ svg_elements[i].points[3] = get_centre(nodes, edges, d)}

SmoothRenderOfResolvedGraph ==
    /\ pc = "rendered"
    /\ render_call.after = "t_resolved"
    /\ render_call.show_smoothened_image

EachDeadEndAddsTwoFillers ==
    SmoothRenderOfResolvedGraph =>
        \A d \in DeadEndEdges :
            /\ edges[d].next_edge # NoEdge
            /\ t_junction_edge_2(edges, d) # NoEdge
            /\ Cardinality(FillerTriangles(d, t_junction_edge_1(edges, d),
                                           edges[d].pixel.colour)) = 1
            /\ Cardinality(FillerTriangles(d, t_junction_edge_2(edges, d),
                                           edges[edges[d].opposite_edge].pixel.colour)) = 1

(***************************************************************************)
(* C28.  After simplify_dual_graph the ids of the listed nodes are         *)
(* 0 .. len - 1 in list order and so are the ids of the listed edges; the  *)
(* edge_list of every listed node holds exactly the listed edges that      *)
(* start at it; the start node, end node and twin of every listed edge are *)
(* listed, and the twin runs from the edge's end to its start.             *)
(***************************************************************************)
EdgeListOf(h) == {nodes[h].edge_list[i] : i \in 1 .. Len(nodes[h].edge_list)}

SimplifiedGraphIsCompact ==
    AfterSimplify =>
        /\ \A i \in 1 .. Len(graph_nodes_list) : nodes[graph_nodes_list[i]].id = i - 1
        /\ \A i \in 1 .. Len(graph_edges_list) : edges[graph_edges_list[i]].id = i - 1
        /\ \A h \in ListedNodes :
              /\ EdgeListOf(h) = {e \in ListedEdges : edges[e].start_node = h}
              /\ Cardinality(EdgeListOf(h)) = Len(nodes[h].edge_list)
        /\ \A e \in ListedEdges :
              /\ edges[e].start_node \in ListedNodes
              /\ edges[e].end_node \in ListedNodes
              /\ edges[e].opposite_edge \in ListedEdges
              /\ edges[edges[e].opposite_edge].id >= 0
              /\ nodes[edges[e].start_node].id >= 0
              /\ nodes[edges[e].end_node].id >= 0
              /\ edges[edges[e].opposite_edge].start_node = edges[e].end_node
              /\ edges[edges[e].opposite_edge].end_node = edges[e].start_node

\* A simplified graph that lost nodes to the collapse and edges to both the
\* collapse and the deletion of edges without colour boundary, and kept both
\* nodes and edges.
CompactionRemovedNodesAndEdges ==
    /\ pc = "simplified"
    /\ 0 < Len(graph_nodes_list) /\ Len(graph_nodes_list) < Len(nodes)
    /\ 0 < Len(graph_edges_list)
    /\ \E e \in DOMAIN edges : e \notin ListedEdges /\ edges[e].start_node \in ListedNodes

(***************************************************************************)
(* C29.  P3 applies its heuristics to a block only when both diagonals of  *)
(* the block are set at that moment: the mask test on the four cells never *)
(* selects a block with at most one diagonal.  A block decided by          *)
(* heuristic 1 or 2 loses exactly one of its two diagonals and every other *)
(* flag of the matrix stays as it was.                                     *)
(***************************************************************************)
BothDiagonalsSet(matrix, b) ==
    \A f \in DexterFlags(b) \cup SinisterFlags(b) : matrix[f[1]][f[2]][f[3]]

OnlyConflictingBlocksProcessed ==
    [][PruneConflictingBlock =>
        /\ BothDiagonalsSet(adjacency_matrix, VisitedBlock)
        /\ Visited.by \in {"chains", "colour"} =>
              \/ /\ adjacency_matrix' = WithoutFlags(adjacency_matrix, DexterFlags(VisitedBlock))
                 /\ \A f \in SinisterFlags(VisitedBlock) : adjacency_matrix'[f[1]][f[2]][f[3]]
              \/ /\ adjacency_matrix' = WithoutFlags(adjacency_matrix, SinisterFlags(VisitedBlock))
                 /\ \A f \in DexterFlags(VisitedBlock) : adjacency_matrix'[f[1]][f[2]][f[3]]]_vars

\* The constructor has returned after P3 decided a block next to a block that
\* had one diagonal only and shared non-planar cells with it, and that P3
\* passed over.
NeighbourWithOneDiagonalPassedOver ==
    /\ pc = "adj_done"
    /\ Len(p3_log) = 1
    /\ p3_log[1].by \in {"chains", "colour"}
    /\ \E b \in BlockSet :
          /\ b # <<p3_log[1].row, p3_log[1].col>>
          /\ BlockCells(b) \cap BlockCells(<<p3_log[1].row, p3_log[1].col>>) # {}
          /\ p3_log[1].before[b[1]][b[2]][7] # p3_log[1].before[b[1]][b[2] + 1][5]

(***************************************************************************)
(* C30.  From the end of P1 on, during planarization and after it, every   *)
(* set flag joins two pixels of the grid that have exactly the same        *)
(* colour, and every orthogonal flag (1, 3, 4, 6) between two pixels of    *)
(* the grid of the same colour is set: P2 and P3 clear diagonal flags only *)
(* and set none.                                                           *)
(***************************************************************************)
FromEndOfP1 ==
    /\ planarize
    /\ pc \notin {"new", "imported", "P1"}

Orthogonal == {1, 3, 4, 6}

EdgesFollowColours ==
    /\ [](FromEndOfP1 =>
            \A cell \in Cells, k \in 0 .. 7 :
                /\ adjacency_matrix[cell[1]][cell[2]][k] =>
                      /\ NeighbourInGrid(cell[1], cell[2], k)
                      /\ ColourAt(cell) = ColourAt(Neighbour(cell, k))
                /\ (/\ k \in Orthogonal
                    /\ NeighbourInGrid(cell[1], cell[2], k)
                    /\ ColourAt(cell) = ColourAt(Neighbour(cell, k))) =>
                      adjacency_matrix[cell[1]][cell[2]][k])
    /\ [][FromEndOfP1 =>
            \A cell \in Cells, k \in 0 .. 7 :
                /\ adjacency_matrix'[cell[1]][cell[2]][k] => adjacency_matrix[cell[1]][cell[2]][k]
                /\ k \in Orthogonal =>
                      adjacency_matrix'[cell[1]][cell[2]][k] = adjacency_matrix[cell[1]][cell[2]][k]]_vars

\* The constructor has returned after P2 and P3 each cleared a diagonal
\* between pixels of one colour, with an orthogonal edge in the matrix.
DiagonalsClearedByP2AndP3 ==
    /\ pc = "adj_done" /\ planarize
    /\ \E i \in 1 .. Len(p3_log) : p3_log[i].by \in {"chains", "colour"}
    /\ \E b \in BlockSet : OneColour(b)
    /\ \E cell \in Cells, k \in Orthogonal : adjacency_matrix[cell[1]][cell[2]][k]

====
